---- MODULE Spec2Model ----
(***************************************************************************)
(* Model of the streaming core of asrcpp-gigam3:                           *)
(*   - VoiceActivityDetector  (src/src/vad.cpp)                            *)
(*   - ASRSession             (src/src/handler.cpp)                        *)
(*   - Recognizer slot pool   (src/src/recognizer.cpp)                     *)
(*                                                                         *)
(* Abstractions.  Sample buffers are modelled by their lengths: the sample *)
(* values reach only the neural VAD, the recognizer and compute_rms, which *)
(* are opaque here.  The VAD probability of a window is an input           *)
(* (speech = prob >= threshold), the recognizer's text is an input (empty  *)
(* or not).  Durations are held in milliseconds, so that                   *)
(* float(n) / float(sample_rate) < d  is  n * 1000 < d * sample_rate  and  *)
(* static_cast<int64_t>(d * sample_rate)  is  (d * sample_rate) \div 1000. *)
(* Wall-clock values (start_ts_, first_result_ts_) are left out;           *)
(* decode_sec_ and preprocess_sec_ are kept as "zero" / "acc".             *)
(***************************************************************************)
EXTENDS Integers, Sequences, FiniteSets, TLC

(***************************************************************************)
(* Configuration (Config / VadConfig), scaled down so that a window is two *)
(* samples and half a second: a run of one window is shorter than          *)
(* vad_min_speech, one of two windows is shorter than min_audio_sec, four  *)
(* windows reach vad_max_speech and two silent windows vad_min_silence.    *)
(* Durations are in milliseconds.                                          *)
(***************************************************************************)
vad_window_size == 2
sample_rate == 4
vad_min_silence == 1000
vad_min_speech == 1000
vad_max_speech == 2000
min_audio_sec == 1500
max_audio_sec == 3000

recognizer_pool_size == 2

(* Bounds of the model. *)
MaxChunks == 6
MaxQueue == 3
NumCallers == 3
NumRequests == 3
SizeBits == 3
MaxMessages == 3
MaxSegmentWindows == 4
MaxPoolSize == 4
MaxNumThreads == 4

max_concurrent_requests == 2
max_ws_message_bytes == 12
max_upload_bytes == 1
min_input_rate == 2
max_input_rate == 8

MaxChunk == vad_window_size + 1

VARIABLES
  vad,        \* ASRSession::vad_ : the VoiceActivityDetector's fields
  ses,        \* ASRSession's scalar fields
  pending,    \* ASRSession::pending_ (its size)
  out,        \* out_messages_[0 .. out_size_) : the list the last call returned
  log,        \* calls made to the VAD, the recognizer and the metrics by the last call
  last_call,  \* the public operation that acted last
  prev_call,  \* the public operation that acted before it
  last_msg,   \* the type of the last message the session returned, in any call
  received,   \* total_samples_received_ as read at handler.cpp:270 by the last on_audio
  samples_size \* samples.size() of the last accept_waveform call made on the
              \* VAD directly

VARIABLES
  slots,       \* Recognizer::slots_[i].in_use
  pool_cv,     \* Recognizer::pool_cv_ : the callers blocked in wait()
  pc,          \* each caller's position in Recognizer::recognize
  slot_idx,    \* each caller's local slot_idx
  ret,         \* what each caller's last recognize call returned
  audio,       \* the audio argument of each caller's last recognize call
  waiting,     \* the callers that blocked in their present call and hold no slot yet
  ahead        \* for each caller in recognize without a slot: the callers that
               \* were waiting when it arrived or when it began to wait

VARIABLES
  sem_count,   \* g_request_sem.count
  req_pc,      \* each POST /recognize request's position in its handler
  resp,        \* the status each request was last answered with
  upload       \* what the handler that stepped last has read of its request

VARIABLES
  conn,        \* one WebSocket connection: its state and its WsConnectionContext
  msg,         \* the message the last handleNewMessage was given
  wire,        \* what the last handleNewMessage did: Session calls and sends, in order
  handled      \* messages handled on the connection

VARIABLES
  cfg,         \* a Config object as main() holds it
  validated    \* how Config::validate ended on it: "no" (not called yet),
               \* "returned" or "ConfigError"

VARIABLES
  rec_pc,      \* the Recognizer object's lifetime: the position of its
               \* constructor or destructor, with the constructor's locals
  handle,      \* Recognizer::slots_[i].handle : 0 for nullptr, else the k-th
               \* handle SherpaOnnxCreateOfflineRecognizer returned
  destroyed    \* for the k-th handle created: the calls of
               \* SherpaOnnxDestroyOfflineRecognizer made on it

sesvars ==
  <<vad, ses, pending, out, log, last_call, prev_call, last_msg, received,
    samples_size>>
poolvars == <<slots, pool_cv, pc, slot_idx, ret, audio, waiting, ahead>>
semvars == <<sem_count, req_pc, resp, upload>>
wsvars == <<conn, msg, wire, handled>>
cfgvars == <<cfg, validated>>
recvars == <<rec_pc, handle, destroyed>>
vars == <<sesvars, poolvars, semvars, wsvars, cfgvars, recvars>>

(***************************************************************************)
(* VoiceActivityDetector                                                   *)
(***************************************************************************)
VadInit ==
  [in_speech |-> FALSE, silence_samples |-> 0, speech_start_samples |-> 0,
   speech_buf |-> 0, segments |-> <<>>, context |-> "zero", state |-> "zero"]

min_silence_samples_late ==
  (vad_min_silence * sample_rate) \div 1000 + vad_window_size

min_silence_samples == (vad_min_silence * sample_rate) \div 1000

max_speech_samples_twice == 2 * ((vad_max_speech * sample_rate) \div 1000)

max_speech_samples == (vad_max_speech * sample_rate) \div 1000

\* float(size) / float(sample_rate) < seconds, seconds held in ms
ShorterThan(size, ms) == size * 1000 < ms * sample_rate

\* infer(): the probability is the caller's input; the hidden state and the
\* context are overwritten from the model output and the window's tail.
infer(v) == [v EXCEPT !.state = "stateN", !.context = "tail"]

finalize_segment_nomin(v) ==
  IF v.speech_buf = 0
    THEN [v EXCEPT !.in_speech = FALSE, !.silence_samples = 0,
                   !.speech_start_samples = 0]
    ELSE [v EXCEPT !.segments = Append(@, v.speech_buf),
                   !.in_speech = FALSE, !.silence_samples = 0,
                   !.speech_start_samples = 0, !.speech_buf = 0]

finalize_segment_keeps_buf(v) ==
  IF v.speech_buf = 0
    THEN [v EXCEPT !.in_speech = FALSE, !.silence_samples = 0,
                   !.speech_start_samples = 0]
    ELSE IF ShorterThan(v.speech_buf, vad_min_speech)
      THEN [v EXCEPT !.in_speech = FALSE, !.silence_samples = 0,
                     !.speech_start_samples = 0]
      ELSE [v EXCEPT !.segments = Append(@, v.speech_buf),
                     !.in_speech = FALSE, !.silence_samples = 0,
                     !.speech_start_samples = 0, !.speech_buf = 0]

finalize_segment(v) ==
  IF v.speech_buf = 0
    THEN [v EXCEPT !.in_speech = FALSE, !.silence_samples = 0,
                   !.speech_start_samples = 0]
    ELSE IF ShorterThan(v.speech_buf, vad_min_speech)
      THEN [v EXCEPT !.in_speech = FALSE, !.silence_samples = 0,
                     !.speech_start_samples = 0, !.speech_buf = 0]
      \* segment.samples = std::move(speech_buf_): the accumulator is left empty
      ELSE [v EXCEPT !.segments = Append(@, v.speech_buf),
                     !.in_speech = FALSE, !.silence_samples = 0,
                     !.speech_start_samples = 0, !.speech_buf = 0]

accept_waveform_gt(v, speech) ==
  LET v0 == infer(v) IN
  IF speech
    THEN LET v1 == IF ~v0.in_speech
                     THEN [v0 EXCEPT !.in_speech = TRUE,
                                     !.speech_start_samples = 0,
                                     !.speech_buf = 0]
                     ELSE v0
             v2 == [v1 EXCEPT !.silence_samples = 0,
                              !.speech_buf = @ + vad_window_size,
                              !.speech_start_samples = @ + vad_window_size]
         IN IF v2.speech_start_samples > max_speech_samples
              THEN finalize_segment(v2)
              ELSE v2
    ELSE IF v0.in_speech
      THEN LET v1 == [v0 EXCEPT !.silence_samples = @ + vad_window_size,
                                !.speech_buf = @ + vad_window_size,
                                !.speech_start_samples = @ + vad_window_size]
           IN IF v1.silence_samples >= min_silence_samples
                THEN finalize_segment(v1)
                ELSE v1
      ELSE v0

accept_waveform_silence_opens(v, speech) ==
  LET v0 == infer(v) IN
  IF speech
    THEN LET v1 == IF ~v0.in_speech
                     THEN [v0 EXCEPT !.in_speech = TRUE,
                                     !.speech_start_samples = 0,
                                     !.speech_buf = 0]
                     ELSE v0
             v2 == [v1 EXCEPT !.silence_samples = 0,
                              !.speech_buf = @ + vad_window_size,
                              !.speech_start_samples = @ + vad_window_size]
         IN IF v2.speech_start_samples >= max_speech_samples
              THEN finalize_segment(v2)
              ELSE v2
    ELSE LET v1 == [v0 EXCEPT !.silence_samples = @ + vad_window_size,
                              !.speech_buf = @ + vad_window_size,
                              !.speech_start_samples = @ + vad_window_size]
         IN IF v1.silence_samples >= min_silence_samples
              THEN finalize_segment(v1)
              ELSE v1

\* accept_waveform on a window of exactly window_size samples;
\* speech is prob >= threshold.
accept_waveform(v, speech) ==
  LET v0 == infer(v) IN
  IF speech
    THEN LET v1 == IF ~v0.in_speech
                     THEN [v0 EXCEPT !.in_speech = TRUE,
                                     !.speech_start_samples = 0,
                                     !.speech_buf = 0]
                     ELSE v0
             v2 == [v1 EXCEPT !.silence_samples = 0,
                              !.speech_buf = @ + vad_window_size,
                              !.speech_start_samples = @ + vad_window_size]
         IN IF v2.speech_start_samples >= max_speech_samples
              THEN finalize_segment(v2)
              ELSE v2
    ELSE IF v0.in_speech
      THEN LET v1 == [v0 EXCEPT !.silence_samples = @ + vad_window_size,
                                !.speech_buf = @ + vad_window_size,
                                !.speech_start_samples = @ + vad_window_size]
           IN IF v1.silence_samples >= min_silence_samples
                THEN finalize_segment(v1)
                ELSE v1
      ELSE v0

flush_after_silence(v) ==
  IF v.in_speech /\ v.speech_buf # 0 /\ v.silence_samples >= min_silence_samples
    THEN finalize_segment(v)
    ELSE v

accept_waveform_unchecked(v, size, speech) ==
  [vad |-> accept_waveform(v, speech), thrown |-> FALSE]

\* accept_waveform on a span of any size: std::invalid_argument, thrown
\* before anything is touched, unless the size is window_size
accept_waveform_span(v, size, speech) ==
  IF size # vad_window_size
    THEN [vad |-> v, thrown |-> TRUE]
    ELSE [vad |-> accept_waveform(v, speech), thrown |-> FALSE]

flush(v) == IF v.in_speech /\ v.speech_buf # 0 THEN finalize_segment(v) ELSE v

reset_keeps_segments(v) == [VadInit EXCEPT !.segments = v.segments]

\* reset(): every field is assigned, the FIFO is cleared, the context and
\* the hidden state are filled with zeroes
reset(v) ==
  [in_speech |-> FALSE, silence_samples |-> 0, speech_start_samples |-> 0,
   speech_buf |-> 0, segments |-> <<>>, context |-> "zero", state |-> "zero"]

pop_last(v) == [v EXCEPT !.segments = SubSeq(@, 1, Len(@) - 1)]

\* segments_.pop_front()
pop(v) == [v EXCEPT !.segments = Tail(@)]

AcceptEv(speech) == IF speech THEN "accept_waveform:speech" ELSE "accept_waveform:silence"

(***************************************************************************)
(* ASRSession.  The private methods are operators on a frame               *)
(*   [vad, ses, pending, out, log, probs, texts]:                          *)
(* the object's fields, and the inputs the call still has to consume:      *)
(* probs, the VAD's classification of the windows to come, and texts,      *)
(* whether the recognizer returns a non-empty text for the segments to     *)
(* come.                                                                   *)
(***************************************************************************)
Min(a, b) == IF a < b THEN a ELSE b

\* reset_session(): every counter, and max_duration_exceeded_;
\* session_active_ is not touched.
reset_session_partial(s) ==
  [s EXCEPT !.has_first_result = FALSE, !.segments = 0, !.silence_segments = 0,
            !.decode_sec = "zero", !.preprocess_sec = "zero",
            !.max_duration_exceeded = FALSE]

reset_session(s) ==
  [s EXCEPT !.has_first_result = FALSE, !.segments = 0, !.silence_segments = 0,
            !.decode_sec = "zero", !.preprocess_sec = "zero",
            !.audio_samples = 0, !.chunks = 0, !.bytes = 0,
            !.total_samples_received = 0, !.max_duration_exceeded = FALSE]

SesInit ==
  [has_first_result |-> FALSE, segments |-> 0, silence_segments |-> 0,
   decode_sec |-> "zero", preprocess_sec |-> "zero", audio_samples |-> 0,
   total_samples_received |-> 0, session_active |-> FALSE,
   max_duration_exceeded |-> FALSE, chunks |-> 0, bytes |-> 0]

Msg(type, samples, is_speech) ==
  [type |-> type, samples |-> samples, is_speech |-> is_speech]

begin_messages(f) == [f EXCEPT !.out = <<>>]

\* duration is total_samples_received_ / sample_rate: held as the sample count
write_interim(f, samples, is_speech) ==
  [f EXCEPT !.out = Append(@, Msg("Interim", samples, is_speech))]

write_final(f, samples) == [f EXCEPT !.out = Append(@, Msg("Final", samples, FALSE))]

write_done(f) == [f EXCEPT !.out = Append(@, Msg("Done", 0, FALSE))]

\* vad_.accept_waveform(pending_) with the next classification
vad_accept(f) ==
  [f EXCEPT !.vad = accept_waveform(f.vad, Head(f.probs)),
            !.log = Append(@, AcceptEv(Head(f.probs))),
            !.probs = Tail(@)]

process_vad_segments_none(f) == f

\* while (!vad_.empty()): front(), the duration test, recognize, pop()
RECURSIVE process_vad_segments(_)
process_vad_segments(f) ==
  IF f.vad.segments = <<>> THEN f
  ELSE
    LET segment == Head(f.vad.segments) IN
    IF ShorterThan(segment, min_audio_sec)
      THEN process_vad_segments(
             [f EXCEPT !.ses.silence_segments = @ + 1,
                       !.log = Append(@, "record_silence"),
                       !.vad = pop(f.vad)])
      ELSE
        LET nonempty == Head(f.texts)
            f1 == [f EXCEPT !.texts = Tail(@),
                            !.log = Append(@, "recognize"),
                            !.ses.decode_sec = "acc",
                            !.ses.audio_samples = @ + segment]
            f2 == IF ~f1.ses.has_first_result
                    THEN [f1 EXCEPT !.ses.has_first_result = TRUE,
                                    !.log = Append(@, "observe_ttfr")]
                    ELSE f1
            f3 == [f2 EXCEPT !.log = Append(@, "observe_segment")]
            f4 == IF ~nonempty
                    THEN [f3 EXCEPT !.ses.silence_segments = @ + 1,
                                    !.log = Append(@, "record_silence")]
                    ELSE write_final(
                           [f3 EXCEPT !.ses.segments = @ + 1,
                                      !.log = Append(@, "record_result")],
                           segment)
        IN process_vad_segments([f4 EXCEPT !.vad = pop(f4.vad)])

flush_pending(f) ==
  LET f1 == IF f.pending # 0
              THEN [vad_accept([f EXCEPT !.pending = vad_window_size,
                                         !.log = Append(@, "zero_pad")])
                      EXCEPT !.pending = 0]
              ELSE f
  IN [f1 EXCEPT !.vad = flush(f1.vad), !.log = Append(@, "flush")]

finalize_session_nodone(f) ==
  LET f1 == [f EXCEPT !.log = Append(@, "observe_request")]
      f4 == IF f1.ses.session_active
              THEN [f1 EXCEPT !.log = Append(@, "session_ended"),
                              !.ses.session_active = FALSE]
              ELSE f1
  IN [f4 EXCEPT !.vad = reset(f4.vad), !.pending = 0,
                !.ses = reset_session(f4.ses)]

finalize_session(f) ==
  LET f1 == [f EXCEPT !.log = Append(@, "observe_request")]
      f2 == IF f1.ses.segments + f1.ses.silence_segments > 0
              THEN [f1 EXCEPT !.log = Append(@, "set_speech_ratio")]
              ELSE f1
      f3 == write_done(f2)
      f4 == IF f3.ses.session_active
              THEN [f3 EXCEPT !.log = Append(@, "session_ended"),
                              !.ses.session_active = FALSE]
              ELSE f3
  IN [f4 EXCEPT !.vad = reset(f4.vad), !.pending = 0,
                !.ses = reset_session(f4.ses)]

feed_windows_nomin(f, remaining) ==
  IF remaining = 0 THEN f
  ELSE
    LET f1 == [f EXCEPT !.pending = @ + remaining]
    IN IF f1.pending = vad_window_size
         THEN [vad_accept(f1) EXCEPT !.pending = 0]
         ELSE f1

\* the windowing loop of on_audio over `remaining` samples still to copy
RECURSIVE feed_windows(_, _)
feed_windows(f, remaining) ==
  IF remaining = 0 THEN f
  ELSE
    LET remaining_in_window == vad_window_size - f.pending
        to_copy == Min(remaining_in_window, remaining)
        f1 == [f EXCEPT !.pending = @ + to_copy]
        f2 == IF f1.pending = vad_window_size
                THEN [vad_accept(f1) EXCEPT !.pending = 0]
                ELSE f1
    IN feed_windows(f2, remaining - to_copy)

CapExceeded_ge(samples) == samples * 1000 >= max_audio_sec * sample_rate

\* max_audio_sec exceeded: received_sec > config_.max_audio_sec
CapExceeded(samples) == samples * 1000 > max_audio_sec * sample_rate

audio_dropped_never(f) == FALSE

\* on_audio: if (max_duration_exceeded_) return current_messages();
audio_dropped(f) == f.ses.max_duration_exceeded

already_finalized_never(f) == FALSE

\* on_recognize: if (max_duration_exceeded_) { ... return current_messages(); }
already_finalized(f) == f.ses.max_duration_exceeded

no_segment_message_always(f) == TRUE

no_segment_message_never(f) == FALSE

\* on_audio: if (out_size_ == 0) write_interim(...)
no_segment_message(f) == f.out = <<>>

on_audio_body(f0, n) ==
  LET f == begin_messages(f0) IN
  IF audio_dropped(f) THEN f
  ELSE
    LET f1 == IF ~f.ses.session_active
                THEN [f EXCEPT !.ses.session_active = TRUE,
                               !.log = Append(@, "session_started")]
                ELSE f
        f2 == [f1 EXCEPT !.ses.chunks = @ + 1,
                         !.ses.total_samples_received = @ + n,
                         !.ses.bytes = @ + n * 4,
                         !.log = Append(@, "record_audio_level")]
        f3 == [feed_windows(f2, n) EXCEPT !.ses.preprocess_sec = "acc"]
        f4 == process_vad_segments(f3)
        f5 == IF no_segment_message(f4)
                THEN write_interim(f4, f4.ses.total_samples_received,
                                   f4.vad.in_speech)
                ELSE f4
    IN IF CapExceeded(f5.ses.total_samples_received)
         THEN [finalize_session(process_vad_segments(flush_pending(f5)))
                 EXCEPT !.ses.max_duration_exceeded = TRUE]
         ELSE f5

on_recognize_body_done_first(f0) ==
  LET f == begin_messages(f0) IN
  IF already_finalized(f)
    THEN [f EXCEPT !.ses.max_duration_exceeded = FALSE]
    ELSE finalize_session_nodone(process_vad_segments(flush_pending(write_done(f))))

on_recognize_body(f0) ==
  LET f == begin_messages(f0) IN
  IF already_finalized(f)
    THEN [f EXCEPT !.ses.max_duration_exceeded = FALSE]
    ELSE finalize_session(process_vad_segments(flush_pending(f)))

on_reset_body_always_ended(f) ==
  LET f1 == [f EXCEPT !.ses.max_duration_exceeded = FALSE]
      f2 == [f1 EXCEPT !.log = Append(@, "session_ended"),
                       !.ses.session_active = FALSE]
  IN [f2 EXCEPT !.vad = reset(f2.vad), !.pending = 0,
                !.ses = reset_session(f2.ses)]

on_reset_body(f) ==
  LET f1 == [f EXCEPT !.ses.max_duration_exceeded = FALSE]
      f2 == IF f1.ses.session_active
              THEN [f1 EXCEPT !.log = Append(@, "session_ended"),
                              !.ses.session_active = FALSE]
              ELSE f1
  IN [f2 EXCEPT !.vad = reset(f2.vad), !.pending = 0,
                !.ses = reset_session(f2.ses)]

on_close_body_keeps_active(f) ==
  IF f.ses.session_active
    THEN [f EXCEPT !.log = Append(@, "session_ended")]
    ELSE f

on_close_body(f) ==
  IF f.ses.session_active
    THEN [f EXCEPT !.log = Append(@, "session_ended"),
                   !.ses.session_active = FALSE]
    ELSE f

(***************************************************************************)
(* State machine of one ASRSession (one connection's serialized calls).    *)
(* Any public call may follow any other, as the class allows; the server   *)
(* makes on_close the last call of a connection.  A call that ends in an   *)
(* exception of the VAD's inference session is not modelled.               *)
(***************************************************************************)
Frame(probs, texts) ==
  [vad |-> vad, ses |-> ses, pending |-> pending, out |-> out, log |-> <<>>,
   probs |-> probs, texts |-> texts]

\* One input per window the call can feed: the full windows that pending_ and
\* the n new samples make up, and the zero-padded one of flush_pending.  Each
\* window fed and the final flush finalize at most one segment.
Oracles(n) == [1..((pending + n) \div vad_window_size) + 1 -> BOOLEAN]

\* f: the fields a handler leaves; returned: the messages its Session calls
\* returned, in order
CommitAfter(f, call, prev, returned) ==
  /\ UNCHANGED <<poolvars, semvars, cfgvars, recvars, samples_size>>
  /\ last_msg' = IF returned = <<>> THEN last_msg
                 ELSE returned[Len(returned)].type
  /\ vad' = f.vad
  /\ ses' = f.ses
  /\ pending' = f.pending
  /\ out' = f.out
  /\ log' = f.log
  /\ last_call' = call
  /\ prev_call' = prev

Commit(f, call) ==
  CommitAfter(f, call, last_call,
              IF call \in {"on_audio", "on_recognize"} THEN f.out ELSE <<>>)

SesVarsInit ==
  /\ vad = VadInit
  /\ ses = SesInit
  /\ pending = 0
  /\ out = <<>>
  /\ log = <<>>
  /\ last_call = "new"
  /\ prev_call = "new"
  /\ last_msg = "none"
  /\ received = 0
  /\ samples_size = 0

Callers == 1..NumCallers
Slots == 0..(recognizer_pool_size - 1)

\* Recognizer::Recognizer: every slot created, none in use
PoolInit ==
  /\ slots = [i \in Slots |-> FALSE]
  /\ pool_cv = {}
  /\ pc = [t \in Callers |-> "idle"]
  /\ slot_idx = [t \in Callers |-> 0]
  /\ ret = [t \in Callers |-> "none"]
  /\ audio = [t \in Callers |-> "none"]
  /\ waiting = {}
  /\ ahead = [t \in Callers |-> {}]

Requests == 1..NumRequests

\* nothing of the request has been read
NoUpload == [parse |-> 0, files |-> 0, size |-> 0, work |-> "none"]

\* Server::Server: g_request_sem.max_count = config.max_concurrent_requests
SemInit ==
  /\ sem_count = 0
  /\ req_pc = [r \in Requests |-> "idle"]
  /\ resp = [r \in Requests |-> "none"]
  /\ upload = NoUpload

\* WsController::handleNewConnection: a context with a new session, no
\* resampler, no sample rate received
WsInit ==
  /\ conn = [state |-> "open", close_code |-> "none", close_reason |-> "normal",
             resampler |-> FALSE, filter |-> "none",
             sample_rate_received |-> FALSE]
  /\ msg = [type |-> "none"]
  /\ wire = <<>>
  /\ handled = 0

\* struct Config's default member initializers, with threads = 8 for
\* std::thread::hardware_concurrency().  Durations are in milliseconds and
\* vad_threshold in hundredths.  The strings (host, paths, provider) and
\* silence_threshold are not read by validate.
DefaultConfig ==
  [port |-> 8081, threads |-> 8, num_threads |-> 4, sample_rate |-> 16000,
   feature_dim |-> 64, vad_threshold |-> 50, vad_min_silence |-> 500,
   vad_min_speech |-> 250, vad_max_speech |-> 20000, vad_window_size |-> 512,
   vad_context_size |-> 64, recognizer_pool_size |-> 0,
   max_concurrent_requests |-> 0, min_audio_sec |-> 500,
   max_audio_sec |-> 30000, max_upload_bytes |-> 104857600,
   max_ws_message_bytes |-> 4194304]

CfgInit ==
  /\ cfg = DefaultConfig
  /\ validated = "no"

\* a Recognizer constructed with recognizer_pool_size slots
RecInit ==
  /\ rec_pc = [pc |-> "constructed", i |-> recognizer_pool_size,
               pool_size |-> recognizer_pool_size, threads_per_slot |-> 1]
  /\ handle = [j \in 1..recognizer_pool_size |-> j]
  /\ destroyed = [j \in 1..recognizer_pool_size |-> 0]

\* main() before it constructs the Recognizer
NoRecognizer ==
  /\ rec_pc = [pc |-> "none", i |-> 0, pool_size |-> 0, threads_per_slot |-> 0]
  /\ handle = <<>>
  /\ destroyed = <<>>

Init == SesVarsInit /\ PoolInit /\ SemInit /\ WsInit /\ CfgInit /\ RecInit

on_audio ==
  /\ ses.chunks < MaxChunks
  /\ \E n \in 0..MaxChunk : \E probs \in Oracles(n), texts \in Oracles(n) :
       /\ Commit(on_audio_body(Frame(probs, texts), n), "on_audio")
       /\ received' = IF ses.max_duration_exceeded
                        THEN received
                        ELSE ses.total_samples_received + n
  /\ UNCHANGED wsvars

on_recognize ==
  /\ \E probs \in Oracles(0), texts \in Oracles(0) :
       Commit(on_recognize_body(Frame(probs, texts)), "on_recognize")
  /\ UNCHANGED <<received, wsvars>>

on_reset ==
  /\ Commit(on_reset_body(Frame(<<>>, <<>>)), "on_reset")
  /\ UNCHANGED <<received, wsvars>>

on_close ==
  /\ Commit(on_close_body(Frame(<<>>, <<>>)), "on_close")
  /\ UNCHANGED <<received, wsvars>>

Next == on_audio \/ on_recognize \/ on_reset \/ on_close

Spec == Init /\ [][Next]_vars

(***************************************************************************)
(* A session fed silence only: the VAD classifies every window, the        *)
(* zero-padded last one included, as silence (prob < threshold).  The      *)
(* chunking is free; the calls are on_audio and on_recognize.              *)
(***************************************************************************)
Silence(n) == [i \in 1..((pending + n) \div vad_window_size) + 1 |-> FALSE]

silent_audio ==
  /\ ses.chunks < MaxChunks
  /\ \E n \in 0..MaxChunk : \E texts \in Oracles(n) :
       /\ Commit(on_audio_body(Frame(Silence(n), texts), n), "on_audio")
       /\ received' = IF ses.max_duration_exceeded
                        THEN received
                        ELSE ses.total_samples_received + n
  /\ UNCHANGED wsvars

silent_recognize ==
  /\ \E texts \in Oracles(0) :
       Commit(on_recognize_body(Frame(Silence(0), texts)), "on_recognize")
  /\ UNCHANGED <<received, wsvars>>

SilenceNext == silent_audio \/ silent_recognize

SpecSilence == Init /\ [][SilenceNext]_vars

(***************************************************************************)
(* ASRSession::process_vad_segments as a function of the session's fields: *)
(* applied once to a session inside on_audio, after the windowing loop put *)
(* up to MaxQueue segments on the VAD's FIFO (a chunk of many windows).    *)
(* The segments are runs the VAD can finalize: whole windows, at least     *)
(* min_speech_duration long.  The session may have handled segments        *)
(* before.                                                                 *)
(***************************************************************************)
SegmentSizes ==
  {z \in {k * vad_window_size : k \in 1..MaxSegmentWindows} :
     ~ShorterThan(z, vad_min_speech)}

Queues == UNION {[1..n -> SegmentSizes] : n \in 0..MaxQueue}

\* the counters after no segment, after one that was too short for the
\* recognizer, and after one that gave a Final
Histories ==
  {[has_first_result |-> FALSE, segments |-> 0, silence_segments |-> 0,
    decode_sec |-> "zero", audio_samples |-> 0],
   [has_first_result |-> FALSE, segments |-> 0, silence_segments |-> 1,
    decode_sec |-> "zero", audio_samples |-> 0],
   [has_first_result |-> TRUE, segments |-> 1, silence_segments |-> 0,
    decode_sec |-> "acc", audio_samples |-> MaxSegmentWindows * vad_window_size]}

DrainInit ==
  /\ PoolInit /\ SemInit /\ WsInit /\ CfgInit /\ RecInit
  /\ \E q \in Queues :
       vad = [VadInit EXCEPT !.segments = q, !.context = "tail", !.state = "stateN"]
  /\ \E h \in Histories :
       ses = [SesInit EXCEPT !.session_active = TRUE, !.chunks = 1,
                             !.preprocess_sec = "acc",
                             !.has_first_result = h.has_first_result,
                             !.segments = h.segments,
                             !.silence_segments = h.silence_segments,
                             !.decode_sec = h.decode_sec,
                             !.audio_samples = h.audio_samples]
  /\ pending = 0
  /\ out = <<>>
  /\ log = <<>>
  /\ last_call = "on_audio"
  /\ prev_call = "new"
  /\ last_msg = "none"
  /\ received = 0
  /\ samples_size = 0

\* process_vad_segments(), called from on_audio after the windowing loop
drain ==
  /\ last_call = "on_audio"
  /\ \E texts \in [1..Len(vad.segments) -> BOOLEAN] :
       Commit(process_vad_segments(Frame(<<>>, texts)), "process_vad_segments")
  /\ UNCHANGED <<received, wsvars>>

DrainNext == drain

SpecDrain == DrainInit /\ [][DrainNext]_vars

(***************************************************************************)
(* State machine of one WebSocket connection: WsController's handlers on   *)
(* the connection's context and its ASRSession.  A binary message is held  *)
(* as its size in bytes; a text message as one of the texts the handler    *)
(* tells apart:                                                            *)
(*   "{rate}"    a JSON object with an integer "sample_rate" (field rate)  *)
(*   "{other}"   a JSON object without "sample_rate"                       *)
(*   "{bad"      starts with '{' and the parse or get<int> throws          *)
(*   "RECOGNIZE", "RESET", "PING" (any other text), "" (empty)             *)
(* The StreamResampler is opaque: process and flush give some number of    *)
(* samples (field produced of the message handled); of its filter state    *)
(* conn.filter keeps whether it is as src_new or src_reset left it         *)
(* ("reset") or has taken input since ("primed").  conn.state is "open",   *)
(* then "shutdown" once the handler called conn->shutdown, then "closed";  *)
(* no message is handled after the shutdown.  Exceptions of the resampler, *)
(* the VAD and the send are not modelled.                                  *)
(***************************************************************************)
sizeof_float == 4

BinarySizes == 0..(max_ws_message_bytes + sizeof_float)

InputRates ==
  {min_input_rate - 1, min_input_rate, sample_rate, sample_rate + 1,
   max_input_rate, max_input_rate + 1}

Texts == {"RECOGNIZE", "RESET", "PING", "", "{rate}", "{other}", "{bad"}

too_large_never(size) == FALSE

\* msg.size() > g_ws_state.config->max_ws_message_bytes
too_large(size) == size > max_ws_message_bytes

\* msg.size() < sizeof(float) || msg.size() % sizeof(float) != 0
invalid_binary_size(size) == size < sizeof_float \/ size % sizeof_float # 0

rate_in_range_always(rate) == TRUE

\* !(input_rate < 8000 || input_rate > 192000), the limits scaled
rate_in_range(rate) == ~(rate < min_input_rate \/ rate > max_input_rate)

is_rate_announcement_again(c, m) == m.text = "{rate}"

\* the announcement branch is entered, parses, and finds "sample_rate"
is_rate_announcement(c, m) ==
  /\ ~c.sample_rate_received
  /\ m.text = "{rate}"

Call(op, msgs) == [kind |-> "call", op |-> op, ret |-> msgs]
Sends(msgs) == [i \in 1..Len(msgs) |-> [kind |-> "send", msg |-> msgs[i]]]

forward_unsent(w, op, msgs) == Append(w, Call(op, msgs))

\* a Session call, then for (const auto& r : responses) conn->send(r.json)
forward(w, op, msgs) == Append(w, Call(op, msgs)) \o Sends(msgs)

\* the number of samples StreamResampler::process or flush gives
Produced == IF conn.resampler THEN 0..MaxChunk ELSE {0}

received_after(n) ==
  IF ses.max_duration_exceeded THEN received ELSE ses.total_samples_received + n

\* StreamResampler::StreamResampler: src_new
resampler_new(c) == [c EXCEPT !.resampler = TRUE, !.filter = "reset"]

\* StreamResampler::process: src_process with end_of_input = 0
resampler_process(c) == [c EXCEPT !.filter = "primed"]

resampler_flush_noreset(c) == c

\* StreamResampler::flush: src_process with end_of_input = 1, then src_reset
resampler_flush(c) == [c EXCEPT !.filter = "reset"]

\* return without touching the session or the connection
ws_ignore(m) ==
  /\ msg' = m
  /\ wire' = <<>>
  /\ UNCHANGED <<conn, sesvars, poolvars, semvars, cfgvars, recvars>>

ws_audio(m, n, c) ==
  \E probs \in Oracles(n), texts \in Oracles(n) :
    LET f == on_audio_body(Frame(probs, texts), n) IN
      /\ msg' = m
      /\ Commit(f, "on_audio")
      /\ received' = received_after(n)
      /\ wire' = forward(<<>>, "on_audio", f.out)
      /\ conn' = c

ws_binary(m) ==
  IF too_large(m.size)
    THEN /\ conn' = [conn EXCEPT !.state = "shutdown",
                                 !.close_code = "kViolation",
                                 !.close_reason = "message_too_large"]
         /\ msg' = m
         /\ wire' = <<>>
         /\ UNCHANGED <<sesvars, poolvars, semvars, cfgvars, recvars>>
    ELSE IF invalid_binary_size(m.size)
      THEN ws_ignore(m)
      ELSE IF conn.resampler
        \* resampled = ctx->resampler->process(ctx->audio_buf)
        THEN \E k \in Produced :
               ws_audio([m EXCEPT !.produced = k], k, resampler_process(conn))
        ELSE ws_audio(m, m.size \div sizeof_float, conn)

ws_sample_rate(m) ==
  IF ~rate_in_range(m.rate)
    THEN ws_ignore(m)
    ELSE /\ conn' = LET c == [conn EXCEPT !.sample_rate_received = TRUE] IN
                      IF m.rate # sample_rate THEN resampler_new(c) ELSE c
         /\ msg' = m
         /\ wire' = <<>>
         /\ UNCHANGED <<sesvars, poolvars, semvars, cfgvars, recvars>>

\* tail = ctx->resampler->flush() gives k samples (k = 0 without a resampler)
ws_recognize(m, k) ==
  \E probs \in Oracles(k), texts \in Oracles(k) :
    LET tail == conn.resampler /\ k # 0
        f0 == Frame(probs, texts)
        f1 == IF tail THEN on_audio_body(f0, k) ELSE f0
        w1 == IF tail THEN forward(<<>>, "on_audio", f1.out) ELSE <<>>
        f2 == on_recognize_body(f1)
    IN /\ msg' = [m EXCEPT !.produced = k]
       /\ CommitAfter(f2, "on_recognize", IF tail THEN "on_audio" ELSE last_call,
                      (IF tail THEN f1.out ELSE <<>>) \o f2.out)
       /\ received' = IF tail THEN received_after(k) ELSE received
       /\ wire' = forward(w1, "on_recognize", f2.out)
       /\ conn' = IF conn.resampler THEN resampler_flush(conn) ELSE conn

ws_reset(m) ==
  LET f == on_reset_body(Frame(<<>>, <<>>)) IN
    /\ msg' = m
    /\ Commit(f, "on_reset")
    /\ wire' = <<Call("on_reset", <<>>)>>
    \* the span flush() returns is not used
    /\ conn' = IF conn.resampler THEN resampler_flush(conn) ELSE conn
    /\ UNCHANGED received

ws_text(m) ==
  IF is_rate_announcement(conn, m) THEN ws_sample_rate(m)
  ELSE IF m.text = "RECOGNIZE" THEN \E k \in Produced : ws_recognize(m, k)
  ELSE IF m.text = "RESET" THEN ws_reset(m)
  ELSE ws_ignore(m)

WsMessages ==
  {[type |-> "Binary", size |-> size, produced |-> 0] : size \in BinarySizes}
  \cup {[type |-> "Text", text |-> "{rate}", rate |-> r, produced |-> 0] :
          r \in InputRates}
  \cup {[type |-> "Text", text |-> t, rate |-> 0, produced |-> 0] :
          t \in Texts \ {"{rate}"}}
  \cup {[type |-> "Ping"]}

handleNewMessage ==
  /\ conn.state = "open"
  /\ handled < MaxMessages
  /\ handled' = handled + 1
  /\ \E m \in WsMessages :
       IF m.type = "Binary" THEN ws_binary(m)
       ELSE IF m.type = "Text" THEN ws_text(m)
       ELSE ws_ignore(m)

handleConnectionClosed ==
  /\ conn.state \in {"open", "shutdown"}
  /\ Commit(on_close_body(Frame(<<>>, <<>>)), "on_close")
  /\ conn' = [conn EXCEPT !.state = "closed"]
  /\ msg' = [type |-> "close"]
  /\ wire' = <<Call("on_close", <<>>)>>
  /\ UNCHANGED <<received, handled>>

WsNext == handleNewMessage \/ handleConnectionClosed

SpecWs == Init /\ [][WsNext]_vars

(***************************************************************************)
(* State machine of one VoiceActivityDetector driven directly through its  *)
(* public interface.                                                       *)
(***************************************************************************)
\* log: the classification given (or "invalid_argument" when the call
\* threw), then "segment" when the call put a segment on the ready FIFO;
\* for reset, what the call found: a run in progress, segments on the FIFO
VadStep(v, call, ev) ==
  /\ vad' = v
  /\ log' = IF Len(v.segments) > Len(vad.segments) THEN Append(ev, "segment") ELSE ev
  /\ last_call' = call
  /\ UNCHANGED <<ses, pending, out, prev_call, last_msg, received>>
  /\ UNCHANGED <<poolvars, semvars, wsvars, cfgvars, recvars>>

vad_accept_waveform ==
  /\ Len(vad.segments) < MaxQueue
  /\ \E size \in 0..MaxChunk, speech \in BOOLEAN :
       LET r == accept_waveform_span(vad, size, speech) IN
         /\ VadStep(r.vad, "accept_waveform",
                    IF r.thrown THEN <<"invalid_argument">> ELSE <<AcceptEv(speech)>>)
         /\ samples_size' = size

vad_flush ==
  /\ Len(vad.segments) < MaxQueue
  /\ VadStep(flush(vad), "flush", <<>>)
  /\ UNCHANGED samples_size

vad_pop ==
  /\ vad.segments # <<>>
  /\ VadStep(pop(vad), "pop", <<>>)
  /\ UNCHANGED samples_size

vad_reset ==
  /\ VadStep(reset(vad), "reset",
             (IF vad.in_speech THEN <<"in_speech">> ELSE <<>>)
               \o (IF vad.segments # <<>> THEN <<"queued">> ELSE <<>>))
  /\ UNCHANGED samples_size

VadNext == vad_accept_waveform \/ vad_flush \/ vad_pop \/ vad_reset

SpecVad == Init /\ [][VadNext]_vars

(***************************************************************************)
(* Recognizer pool: NumCallers threads calling Recognizer::recognize.      *)
(* Each region guarded by pool_mutex_ is one step: it blocks nowhere but   *)
(* in pool_cv_.wait, which gives the mutex up.  A caller's pc:             *)
(*   idle      outside recognize                                           *)
(*   acquire   at the unique_lock / the wait predicate (also after a       *)
(*             wakeup, when wait() has re-acquired the mutex)              *)
(*   blocked   inside pool_cv_.wait, mutex released                        *)
(*   stream    slot taken, at SherpaOnnxCreateOfflineStream                *)
(*   decode    inference, no mutex held                                    *)
(*   fail      stream == nullptr: about to release under the mutex         *)
(*   release   about to clear in_use under the mutex                       *)
(*   notify    at pool_cv_.notify_one() after the release                  *)
(***************************************************************************)
FreeSlots_any == Slots

\* the slots the wait predicate's scan accepts
FreeSlots == {i \in Slots : ~slots[i]}

\* the scan takes the first slot that is not in use
FirstFree == CHOOSE i \in FreeSlots : \A j \in FreeSlots : i <= j

Goto(t, where) == pc' = [pc EXCEPT ![t] = where]

notify_none(cv) == {cv}

\* pool_cv_.notify_one(): wakes one blocked caller, if there is one
notify_one(cv) == IF cv = {} THEN {cv} ELSE {cv \ {w} : w \in cv}

empty_never(a) == FALSE

\* audio.empty()
empty(a) == a = "empty"

recognize_call(t) ==
  /\ pc[t] = "idle"
  /\ \E a \in {"empty", "samples"} :
       /\ audio' = [audio EXCEPT ![t] = a]
       /\ IF empty(a)
            THEN /\ ret' = [ret EXCEPT ![t] = "empty"]
                 /\ UNCHANGED <<slots, pool_cv, pc, slot_idx, waiting, ahead>>
            ELSE /\ Goto(t, "acquire")
                 /\ slot_idx' = [slot_idx EXCEPT ![t] = 0]
                 /\ ret' = [ret EXCEPT ![t] = "none"]
                 /\ ahead' = [ahead EXCEPT ![t] = waiting]
                 /\ UNCHANGED <<slots, pool_cv, waiting>>
  /\ UNCHANGED <<sesvars, semvars, wsvars, cfgvars, recvars>>

\* under the mutex: the predicate finds a slot and the caller marks it, or the
\* caller blocks in wait()
pool_acquire(t) ==
  /\ pc[t] = "acquire"
  /\ IF FreeSlots # {}
       THEN /\ slot_idx' = [slot_idx EXCEPT ![t] = FirstFree]
            /\ slots' = [slots EXCEPT ![FirstFree] = TRUE]
            /\ Goto(t, "stream")
            /\ waiting' = waiting \ {t}
            /\ ahead' = [u \in Callers |-> IF u = t THEN {} ELSE ahead[u] \ {t}]
            /\ UNCHANGED pool_cv
       ELSE /\ pool_cv' = pool_cv \cup {t}
            /\ Goto(t, "blocked")
            /\ waiting' = waiting \cup {t}
            /\ ahead' = IF t \in waiting THEN ahead
                        ELSE [ahead EXCEPT ![t] = @ \cup waiting]
            /\ UNCHANGED <<slots, slot_idx>>
  /\ UNCHANGED <<ret, audio, sesvars, semvars, wsvars, cfgvars, recvars>>

\* a blocked caller that was notified, or woke spuriously, has left the wait
\* set and evaluates the predicate again
pool_wakeup(t) ==
  /\ pc[t] = "blocked"
  /\ t \notin pool_cv
  /\ Goto(t, "acquire")
  /\ UNCHANGED <<slots, pool_cv, slot_idx, ret, audio, waiting, ahead, sesvars, semvars, wsvars, cfgvars, recvars>>

pool_spurious(t) ==
  /\ pc[t] = "blocked"
  /\ t \in pool_cv
  /\ pool_cv' = pool_cv \ {t}
  /\ UNCHANGED <<slots, pc, slot_idx, ret, audio, waiting, ahead, sesvars, semvars, wsvars, cfgvars, recvars>>

pool_create_stream(t) ==
  /\ pc[t] = "stream"
  /\ \E ok \in BOOLEAN : Goto(t, IF ok THEN "decode" ELSE "fail")
  /\ UNCHANGED <<slots, pool_cv, slot_idx, ret, audio, waiting, ahead, sesvars, semvars, wsvars, cfgvars, recvars>>

pool_fail_release(t) ==
  /\ pc[t] = "fail"
  /\ slots' = [slots EXCEPT ![slot_idx[t]] = FALSE]
  /\ pool_cv' \in notify_one(pool_cv)
  /\ ret' = [ret EXCEPT ![t] = "empty"]
  /\ Goto(t, "idle")
  /\ UNCHANGED <<slot_idx, audio, waiting, ahead, sesvars, semvars, wsvars, cfgvars, recvars>>

pool_decode(t) ==
  /\ pc[t] = "decode"
  /\ Goto(t, "release")
  /\ UNCHANGED <<slots, pool_cv, slot_idx, ret, audio, waiting, ahead, sesvars, semvars, wsvars, cfgvars, recvars>>

\* an exception leaves the inference section (the std::string assignment
\* of the result, or the library's inference): nothing between the
\* acquisition and the release at the end catches it or releases the slot
pool_decode_throws(t) ==
  /\ pc[t] = "decode"
  /\ ret' = [ret EXCEPT ![t] = "exception"]
  /\ Goto(t, "idle")
  /\ UNCHANGED <<slots, pool_cv, slot_idx, audio, waiting, ahead, sesvars, semvars, wsvars, cfgvars, recvars>>

pool_release(t) ==
  /\ pc[t] = "release"
  /\ slots' = [slots EXCEPT ![slot_idx[t]] = FALSE]
  /\ Goto(t, "notify")
  /\ UNCHANGED <<pool_cv, slot_idx, ret, audio, waiting, ahead, sesvars, semvars, wsvars, cfgvars, recvars>>

\* notify_one(), then return text: the trimmed text is empty or not
pool_notify(t) ==
  /\ pc[t] = "notify"
  /\ pool_cv' \in notify_one(pool_cv)
  /\ \E text \in {"empty", "text"} : ret' = [ret EXCEPT ![t] = text]
  /\ Goto(t, "idle")
  /\ UNCHANGED <<slots, slot_idx, audio, waiting, ahead, sesvars, semvars, wsvars, cfgvars, recvars>>

PoolNext ==
  \E t \in Callers :
    \/ recognize_call(t)
    \/ pool_acquire(t)
    \/ pool_wakeup(t)
    \/ pool_spurious(t)
    \/ pool_create_stream(t)
    \/ pool_fail_release(t)
    \/ pool_decode(t)
    \/ pool_release(t)
    \/ pool_notify(t)

SpecPool == Init /\ [][PoolNext]_vars

(***************************************************************************)
(* The pool under NumCallers threads that each call recognize once and     *)
(* whose inference ends without an exception, with the scheduler's         *)
(* fairness: a thread that can take a step takes it in the end.  Only a    *)
(* spurious wakeup need never happen.                                      *)
(***************************************************************************)
recognize_once(t) == audio[t] = "none" /\ recognize_call(t)

PoolOnceNext ==
  \E t \in Callers :
    \/ recognize_once(t)
    \/ pool_acquire(t)
    \/ pool_wakeup(t)
    \/ pool_spurious(t)
    \/ pool_create_stream(t)
    \/ pool_fail_release(t)
    \/ pool_decode(t)
    \/ pool_release(t)
    \/ pool_notify(t)

\* the step a caller inside recognize takes next without outside help; at
\* each position at most one of these is enabled
pool_progress(t) ==
  \/ pool_acquire(t)
  \/ pool_wakeup(t)
  \/ pool_create_stream(t)
  \/ pool_fail_release(t)
  \/ pool_decode(t)
  \/ pool_release(t)
  \/ pool_notify(t)

\* the same callers, the inference of any of which may end in an exception
PoolThrowNext ==
  \E t \in Callers :
    \/ recognize_once(t)
    \/ pool_acquire(t)
    \/ pool_wakeup(t)
    \/ pool_spurious(t)
    \/ pool_create_stream(t)
    \/ pool_fail_release(t)
    \/ pool_decode(t)
    \/ pool_decode_throws(t)
    \/ pool_release(t)
    \/ pool_notify(t)

SpecPoolThrow == Init /\ [][PoolThrowNext]_vars

PoolFairness == \A t \in Callers : WF_vars(pool_progress(t))

SpecPoolFair == Init /\ [][PoolOnceNext]_vars /\ PoolFairness

(***************************************************************************)
(* POST /recognize: NumRequests handler invocations on the server's worker *)
(* threads, around the RequestSemaphore.  try_acquire and release run      *)
(* under the semaphore's mutex: each is one step.  count is a size_t, held *)
(* modulo 2^SizeBits.  A request's position:                               *)
(*   idle       no handler running for it                                  *)
(*   admitted   try_acquire returned true; before the handler's release    *)
(*   released   past g_request_sem.release() at the end of the try block,  *)
(*              building and sending the 200 response, still inside try    *)
(***************************************************************************)
SizeMod == 2 ^ SizeBits

\* RequestSemaphore::try_acquire: the value returned and the count it leaves
try_acquire(count) ==
  IF count >= max_concurrent_requests
    THEN [ok |-> FALSE, count |-> count]
    ELSE [ok |-> TRUE, count |-> (count + 1) % SizeMod]

\* RequestSemaphore::release: --count on a size_t
release(count) == (count - 1) % SizeMod

\* What the handler reads of a request, in the order it reads it:
\*   parse   the value of fileUpload.parse(req)
\*   files   fileUpload.getFiles().size()
\*   size    file.fileContent().size() of the first file
\*   work    how decode_wav and recognize end: "ok", an AudioError, or another
\*           std::exception
Uploads ==
  {[parse |-> p, files |-> n, size |-> (IF n = 0 THEN 0 ELSE z), work |-> w] :
     p \in {0, -1}, n \in 0..1, z \in 0..(max_upload_bytes + 1),
     w \in {"ok", "AudioError", "exception"}}

upload_check_ge(u) ==
  IF u.parse # 0 \/ u.files = 0 THEN "400"
  ELSE IF u.size >= max_upload_bytes THEN "413"
  ELSE IF u.size = 0 THEN "400"
  ELSE "none"

\* the checks before the try block: the status answered, "none" when all pass
upload_check(u) ==
  IF u.parse # 0 \/ u.files = 0 THEN "400"
  ELSE IF u.size > max_upload_bytes THEN "413"
  ELSE IF u.size = 0 THEN "400"
  ELSE "none"

\* the try block up to the release: the status its catch handlers answer
try_status(u) ==
  IF u.work = "AudioError" THEN "400"
  ELSE IF u.work = "exception" THEN "500"
  ELSE "none"

handler_status(u) ==
  IF upload_check(u) # "none" THEN upload_check(u) ELSE try_status(u)

\* the handler's start: 503 at once when try_acquire fails, before the
\* request is read
request_begin(r) ==
  /\ req_pc[r] = "idle"
  /\ upload' = NoUpload
  /\ LET a == try_acquire(sem_count) IN
       /\ sem_count' = a.count
       /\ IF a.ok
            THEN /\ req_pc' = [req_pc EXCEPT ![r] = "admitted"]
                 /\ resp' = [resp EXCEPT ![r] = "none"]
            ELSE /\ resp' = [resp EXCEPT ![r] = "503"]
                 /\ UNCHANGED req_pc
  /\ UNCHANGED <<sesvars, poolvars, wsvars, cfgvars, recvars>>

\* make_error_and_release before the semaphore was released: no file or an
\* empty one (400), a file too large (413), an AudioError of decode_wav (400),
\* another exception of the decoding or the recognition (500)
request_fail(r) ==
  /\ req_pc[r] = "admitted"
  /\ \E u \in Uploads :
       /\ handler_status(u) # "none"
       /\ upload' = u
       /\ resp' = [resp EXCEPT ![r] = handler_status(u)]
  /\ sem_count' = release(sem_count)
  /\ req_pc' = [req_pc EXCEPT ![r] = "idle"]
  /\ UNCHANGED <<sesvars, poolvars, wsvars, cfgvars, recvars>>

\* decoded and recognized: g_request_sem.release() at the end of the work
request_release(r) ==
  /\ req_pc[r] = "admitted"
  /\ \E u \in Uploads : handler_status(u) = "none" /\ upload' = u
  /\ sem_count' = release(sem_count)
  /\ req_pc' = [req_pc EXCEPT ![r] = "released"]
  /\ UNCHANGED <<resp, sesvars, poolvars, wsvars, cfgvars, recvars>>

\* the response is built and handed to the callback
request_respond(r) ==
  /\ req_pc[r] = "released"
  /\ resp' = [resp EXCEPT ![r] = "200"]
  /\ req_pc' = [req_pc EXCEPT ![r] = "idle"]
  /\ UNCHANGED <<sem_count, upload, sesvars, poolvars, wsvars, cfgvars, recvars>>

\* building or sending the response throws a std::exception (j.dump() on a
\* text that is not valid UTF-8, an allocation failure): the try block's
\* handler answers through make_error_and_release, which releases again
request_respond_throws(r) ==
  /\ req_pc[r] = "released"
  /\ resp' = [resp EXCEPT ![r] = "500"]
  /\ sem_count' = release(sem_count)
  /\ req_pc' = [req_pc EXCEPT ![r] = "idle"]
  /\ UNCHANGED <<upload, sesvars, poolvars, wsvars, cfgvars, recvars>>

SemNext ==
  \E r \in Requests :
    \/ request_begin(r)
    \/ request_fail(r)
    \/ request_release(r)
    \/ request_respond(r)
    \/ request_respond_throws(r)

SpecSem == Init /\ [][SemNext]_vars

(***************************************************************************)
(* Config::validate, applied once to a Config whose fields were set from   *)
(* the environment.  The int fields are any integers, the size_t fields    *)
(* and port any naturals; validate works on the real limits, not on the    *)
(* scaled configuration above.  Float fields are held as integers:         *)
(* durations in milliseconds, vad_threshold in hundredths.                 *)
(***************************************************************************)
clamp_low(v, lo, hi) == IF v < lo THEN lo ELSE v

\* std::clamp
clamp(v, lo, hi) == IF v < lo THEN lo ELSE IF v > hi THEN hi ELSE v

validate_returns(c) == [cfg |-> c, thrown |-> FALSE]
validate_throws(c) == [cfg |-> c, thrown |-> TRUE]

\* the statements after the last throw: pool size, concurrent requests and
\* the VAD durations
validate_tail(c) ==
  LET c1 == IF c.recognizer_pool_size = 0
              THEN [c EXCEPT !.recognizer_pool_size = c.threads]
              ELSE c
      c2 == IF c1.recognizer_pool_size < 1 \/ c1.recognizer_pool_size > 256
              THEN [c1 EXCEPT !.recognizer_pool_size = clamp(@, 1, 256)]
              ELSE c1
      c3 == IF c2.max_concurrent_requests = 0
              THEN [c2 EXCEPT !.max_concurrent_requests = c2.threads * 2]
              ELSE c2
      c4 == IF c3.vad_min_silence <= 0
              THEN [c3 EXCEPT !.vad_min_silence = 10]
              ELSE c3
      c5 == IF c4.vad_min_speech <= 0
              THEN [c4 EXCEPT !.vad_min_speech = 10]
              ELSE c4
      c6 == IF c5.vad_max_speech <= c5.vad_min_speech
              THEN [c5 EXCEPT !.vad_max_speech = c5.vad_min_speech + 10000]
              ELSE c5
  IN validate_returns(c6)

\* from the num_threads clamp to the last throw
validate_clamps(c) ==
  LET c1 == IF c.num_threads < 1 \/ c.num_threads > 128
              THEN [c EXCEPT !.num_threads = clamp(@, 1, 128)]
              ELSE c
      c2 == IF c1.threads < 1 \/ c1.threads > 256
              THEN [c1 EXCEPT !.threads = clamp(@, 1, 256)]
              ELSE c1
      c3 == IF c2.vad_threshold <= 0 \/ c2.vad_threshold >= 100
              THEN [c2 EXCEPT !.vad_threshold = clamp(@, 1, 99)]
              ELSE c2
      c4 == IF c3.min_audio_sec < 0
              THEN [c3 EXCEPT !.min_audio_sec = 0]
              ELSE c3
      c5 == IF c4.max_audio_sec <= c4.min_audio_sec
              THEN [c4 EXCEPT !.max_audio_sec = c4.min_audio_sec + 30000]
              ELSE c4
  IN IF c5.feature_dim <= 0 THEN validate_throws(c5)
     ELSE IF c5.max_upload_bytes = 0 THEN validate_throws(c5)
     ELSE IF c5.port = 0 THEN validate_throws(c5)
     ELSE IF c5.max_ws_message_bytes = 0 THEN validate_throws(c5)
     ELSE validate_tail(c5)

validate(c) ==
  IF c.sample_rate <= 0 THEN validate_throws(c)
  ELSE
    LET c1 == IF c.sample_rate < 8000 \/ c.sample_rate > 48000
                THEN [c EXCEPT !.sample_rate = clamp(@, 8000, 48000)]
                ELSE c
    IN IF c1.vad_window_size <= 0 THEN validate_throws(c1)
       ELSE
         LET c2 == IF c1.vad_window_size < 64 \/ c1.vad_window_size > 4096
                     THEN [c1 EXCEPT !.vad_window_size = clamp(@, 64, 4096)]
                     ELSE c1
         IN IF c2.vad_context_size < 0
                 \/ c2.vad_context_size >= c2.vad_window_size
              THEN validate_throws(c2)
              ELSE validate_clamps(c2)

\* The Config objects validate is given: the int fields below, at and above
\* their limits, and a few settings of the others.
IntSettings ==
  [sample_rate : {-1, 0, 7999, 16000, 48001},
   vad_window_size : {0, 63, 512, 4097},
   vad_context_size : {-1, 0, 64, 4096},
   num_threads : {0, 4, 129},
   threads : {0, 8, 257},
   recognizer_pool_size : {-1, 0, 4, 257},
   max_concurrent_requests : {0, 5},
   port : {0, 8081}]

OtherSettings ==
  {[feature_dim |-> 64, max_upload_bytes |-> 104857600,
    max_ws_message_bytes |-> 4194304, vad_threshold |-> 50,
    vad_min_silence |-> 500, vad_min_speech |-> 250, vad_max_speech |-> 20000,
    min_audio_sec |-> 500, max_audio_sec |-> 30000],
   [feature_dim |-> 0, max_upload_bytes |-> 104857600,
    max_ws_message_bytes |-> 4194304, vad_threshold |-> 50,
    vad_min_silence |-> 500, vad_min_speech |-> 250, vad_max_speech |-> 20000,
    min_audio_sec |-> 500, max_audio_sec |-> 30000],
   [feature_dim |-> 64, max_upload_bytes |-> 0,
    max_ws_message_bytes |-> 1, vad_threshold |-> 50,
    vad_min_silence |-> 500, vad_min_speech |-> 250, vad_max_speech |-> 20000,
    min_audio_sec |-> 500, max_audio_sec |-> 30000],
   [feature_dim |-> 64, max_upload_bytes |-> 1,
    max_ws_message_bytes |-> 0, vad_threshold |-> 50,
    vad_min_silence |-> 500, vad_min_speech |-> 250, vad_max_speech |-> 20000,
    min_audio_sec |-> 500, max_audio_sec |-> 30000],
   [feature_dim |-> 64, max_upload_bytes |-> 1,
    max_ws_message_bytes |-> 1, vad_threshold |-> 100,
    vad_min_silence |-> 0, vad_min_speech |-> -250, vad_max_speech |-> -250,
    min_audio_sec |-> -1, max_audio_sec |-> 0]}

\* the Config with the fields of i and o
Config(i, o) ==
  [f \in DOMAIN DefaultConfig |-> IF f \in DOMAIN i THEN i[f] ELSE o[f]]

ConfigInit ==
  /\ SesVarsInit /\ PoolInit /\ SemInit /\ WsInit /\ NoRecognizer
  /\ \E i \in IntSettings, o \in OtherSettings : cfg = Config(i, o)
  /\ validated = "no"

\* config.validate() in main(): the fields it leaves, also when it throws
validate_call ==
  /\ validated = "no"
  /\ LET r == validate(cfg) IN
       /\ cfg' = r.cfg
       /\ validated' = IF r.thrown THEN "ConfigError" ELSE "returned"
  /\ UNCHANGED <<sesvars, poolvars, semvars, wsvars, recvars>>

ConfigNext == validate_call

SpecConfig == ConfigInit /\ [][ConfigNext]_vars

(***************************************************************************)
(* Construction and destruction of one Recognizer (main.cpp:19): the       *)
(* constructor's loop over the slots, one iteration a step, each           *)
(* iteration's SherpaOnnxCreateOfflineRecognizer succeeding or returning   *)
(* nullptr; the destructor runs only on an object whose constructor        *)
(* returned.                                                               *)
(***************************************************************************)
Max(a, b) == IF a > b THEN a ELSE b

\* pool_size and threads_per_slot as the constructor computes them
ctor_pool_size(c) ==
  IF c.recognizer_pool_size > 0 THEN c.recognizer_pool_size ELSE 1
ctor_threads_per_slot(c) == Max(1, c.num_threads \div ctor_pool_size(c))

created_before_but_last(i) == 1..(i - 1)

\* for (int j = 0; j < i; ++j): the slots filled before slot i,
\* as indices of handle
created_before(i) == 1..i

\* SherpaOnnxDestroyOfflineRecognizer on slots_[j].handle for each j in js
destroy_handles(js) ==
  [k \in DOMAIN destroyed |->
     destroyed[k] + Cardinality({j \in js : handle[j] = k})]

\* from_env() and validate() have run, or the Config was filled in by hand
CtorInit ==
  /\ SesVarsInit /\ PoolInit /\ SemInit /\ WsInit
  /\ \E p \in 0..MaxPoolSize, n \in 1..MaxNumThreads :
       /\ cfg = [DefaultConfig EXCEPT !.recognizer_pool_size = p,
                                      !.num_threads = n]
       /\ validated = IF p = 0 THEN "no" ELSE "returned"
       /\ rec_pc = [pc |-> "loop", i |-> 0, pool_size |-> ctor_pool_size(cfg),
                    threads_per_slot |-> ctor_threads_per_slot(cfg)]
       \* slots_.resize(pool_size): handle = nullptr
       /\ handle = [j \in 1..ctor_pool_size(cfg) |-> 0]
       /\ destroyed = <<>>

\* one iteration of the loop, or the loop's exit
ctor_step ==
  /\ rec_pc.pc = "loop"
  /\ IF rec_pc.i < rec_pc.pool_size
       THEN \E created \in BOOLEAN :
              IF created
                THEN /\ destroyed' = Append(destroyed, 0)
                     /\ handle' = [handle EXCEPT ![rec_pc.i + 1] = Len(destroyed')]
                     /\ rec_pc' = [rec_pc EXCEPT !.i = @ + 1]
                ELSE /\ destroyed' = destroy_handles(created_before(rec_pc.i))
                     /\ rec_pc' = [rec_pc EXCEPT !.pc = "runtime_error"]
                     /\ UNCHANGED handle
       ELSE /\ rec_pc' = [rec_pc EXCEPT !.pc = "constructed"]
            /\ UNCHANGED <<handle, destroyed>>
  /\ UNCHANGED <<sesvars, poolvars, semvars, wsvars, cfgvars>>

\* Recognizer::~Recognizer
dtor ==
  /\ rec_pc.pc = "constructed"
  /\ destroyed' = destroy_handles({j \in DOMAIN handle : handle[j] # 0})
  /\ rec_pc' = [rec_pc EXCEPT !.pc = "destructed"]
  /\ UNCHANGED handle
  /\ UNCHANGED <<sesvars, poolvars, semvars, wsvars, cfgvars>>

CtorNext == ctor_step \/ dtor

SpecCtor == CtorInit /\ [][CtorNext]_vars

(***************************************************************************)
(* Properties                                                              *)
(***************************************************************************)
Types(msgs) == [i \in 1..Len(msgs) |-> msgs[i].type]
Count(msgs, type) == Cardinality({i \in 1..Len(msgs) : msgs[i].type = type})
Has(msgs, type) == \E i \in 1..Len(msgs) : msgs[i].type = type
Logged(ev) == \E i \in 1..Len(log) : log[i] = ev
Returned == last_call \in {"on_audio", "on_recognize"}

\* C1 (as stated): after any on_audio calls, the list on_recognize returns is
\* non-empty, holds exactly one Done, and the Done is its last message.
C1_Original ==
  last_call = "on_recognize" =>
    /\ out # <<>>
    /\ Count(out, "Done") = 1
    /\ out[Len(out)].type = "Done"

\* C1 (amended): an on_recognize call made while max_duration_exceeded_ is
\* false returns a non-empty list with exactly one Done, which is last.
C1_DoneLast ==
  [][(last_call' = "on_recognize" /\ ~ses.max_duration_exceeded) =>
       /\ out' # <<>>
       /\ Count(out', "Done") = 1
       /\ out'[Len(out')].type = "Done"]_vars

C1_Witness ==
  /\ last_call = "on_recognize"
  /\ Len(out) >= 2
  /\ out[1].type = "Final"
  /\ out[Len(out)].type = "Done"

\* C3: after every public call the pending sub-window buffer holds strictly
\* fewer than vad_window_size samples.
C3_PendingBelowWindow == pending < vad_window_size

C3_Witness ==
  /\ last_call = "on_audio"
  /\ pending = vad_window_size - 1
  /\ \E i \in 1..Len(log) : log[i] \in {AcceptEv(TRUE), AcceptEv(FALSE)}

\* C6 (as stated): the list an on_audio call returns never holds both an
\* Interim and a Final.
C6_Original ==
  last_call = "on_audio" => ~(Has(out, "Interim") /\ Has(out, "Final"))

\* C6 (amended): the list returned by an on_audio call that does not
\* auto-finalize never holds both an Interim and a Final; in every on_audio
\* list an Interim occurs at most once and only as the first message, so a
\* Final follows an Interim only in the auto-finalizing call.
C6_InterimOnlyFirst ==
  last_call = "on_audio" =>
    /\ ~Has(out, "Done") => ~(Has(out, "Interim") /\ Has(out, "Final"))
    /\ \A i \in 1..Len(out) : out[i].type = "Interim" => i = 1

C6_Witness ==
  /\ last_call = "on_audio"
  /\ Len(out) = 1
  /\ out[1].type = "Final"

\* C7: in every list returned by on_audio or on_recognize a Done occurs at
\* most once and is then the last message, every Final of the list precedes
\* it, and nothing of the ended session is left to produce a later Final.
C7_DoneOnceLast ==
  Returned =>
    /\ Count(out, "Done") <= 1
    /\ \A i \in 1..Len(out) : out[i].type = "Done" => i = Len(out)
    /\ \A i, j \in 1..Len(out) :
         (out[i].type = "Final" /\ out[j].type = "Done") => i < j
    /\ Has(out, "Done") => (vad = VadInit /\ pending = 0)

C7_Witness ==
  /\ last_call = "on_audio"
  /\ Len(out) = 3
  /\ Types(out) = <<"Interim", "Final", "Done">>

\* C8: while max_duration_exceeded_ is set, an on_audio call returns no
\* message, makes no call to the VAD, the recognizer or the metrics, and
\* changes no session state.
C8_DroppedAfterCap ==
  [][(ses.max_duration_exceeded /\ last_call' = "on_audio") =>
       /\ out' = <<>>
       /\ log' = <<>>
       /\ UNCHANGED <<vad, ses, pending>>]_vars

C8_Witness ==
  /\ ses.max_duration_exceeded
  /\ last_call = "on_audio"
  /\ out = <<>>

\* C9: on_recognize called while max_duration_exceeded_ is set returns no
\* message, records no metric, clears the flag and leaves the state of a new
\* session; the on_audio after it starts a session and returns a message.
C9_RecognizeAfterCap ==
  [][/\ (ses.max_duration_exceeded /\ last_call' = "on_recognize") =>
          /\ out' = <<>>
          /\ log' = <<>>
          /\ ~ses'.max_duration_exceeded
          /\ ses' = SesInit /\ vad' = VadInit /\ pending' = 0
     /\ (last_call = "on_recognize" /\ out = <<>> /\ last_call' = "on_audio") =>
          /\ log' # <<>> /\ log'[1] = "session_started"
          /\ out' # <<>>]_vars

C9_Witness ==
  /\ last_call = "on_recognize"
  /\ out = <<>>
  /\ received * 1000 > max_audio_sec * sample_rate

\* C10: an on_audio call that is processed and brings the received duration
\* strictly above max_audio_sec zero-pads and feeds the pending samples,
\* flushes and drains the VAD, finalizes the session, sets
\* max_duration_exceeded_ and returns a list ending in Done; one that leaves
\* the duration at or below max_audio_sec emits no Done.
C10_AutoFinalize ==
  [][(~ses.max_duration_exceeded /\ last_call' = "on_audio") =>
       LET exceeded == received' * 1000 > max_audio_sec * sample_rate
           left == (pending + received' - ses.total_samples_received)
                     % vad_window_size
       IN /\ received' >= ses.total_samples_received
          /\ exceeded <=> Has(out', "Done")
          /\ exceeded <=> ses'.max_duration_exceeded
          /\ exceeded =>
               /\ out'[Len(out')].type = "Done"
               /\ vad' = VadInit /\ pending' = 0
               /\ ses' = [SesInit EXCEPT !.max_duration_exceeded = TRUE]
               /\ \E i, j \in 1..Len(log') :
                    /\ i < j
                    /\ log'[i] = "flush"
                    /\ log'[j] = "observe_request"
                    /\ IF left # 0
                         THEN /\ i >= 3
                              /\ log'[i - 2] = "zero_pad"
                              /\ log'[i - 1] \in {AcceptEv(TRUE), AcceptEv(FALSE)}
                         ELSE \A k \in 1..Len(log') : log'[k] # "zero_pad"
                    /\ \A k \in (j + 1)..Len(log') :
                         log'[k] \in {"set_speech_ratio", "session_ended"}]_vars

C10_Witness ==
  /\ last_call = "on_audio"
  /\ ses.max_duration_exceeded
  /\ Logged("zero_pad")
  /\ Logged("record_result")
  /\ out # <<>> /\ out[Len(out)].type = "Done"

\* C11: an on_reset call made directly after an on_reset call changes no
\* session state (pending_, the counters, the flags, the VAD's state machine
\* and FIFO, the message list) and makes no metrics call.
C11_ResetIdempotent ==
  [][(last_call = "on_reset" /\ last_call' = "on_reset") =>
       /\ UNCHANGED <<vad, ses, pending, out>>
       /\ log' = <<>>]_vars

\* the first on_reset ended a session that held audio; the second followed it
C11_Witness ==
  /\ last_call = "on_reset"
  /\ prev_call = "on_reset"
  /\ out # <<>>
  /\ vad = VadInit /\ ses = SesInit /\ pending = 0

\* the logical state of a newly constructed session
Fresh(v, s, p) == v = VadInit /\ s = SesInit /\ p = 0

\* C20: after every on_recognize and every on_reset the session's logical
\* state is that of a new session; the on_audio that follows is processed
\* (it starts a session) and returns a message; and whatever on_audio calls
\* came before it, an on_recognize leaves Done as the last message the
\* session returned.
C20_FreshAfterFinalize ==
  [][/\ last_call' \in {"on_recognize", "on_reset"} => Fresh(vad', ses', pending')
     /\ (last_call \in {"on_recognize", "on_reset"} /\ last_call' = "on_audio") =>
          /\ Fresh(vad, ses, pending)
          /\ out' # <<>>
          /\ log' # <<>> /\ log'[1] = "session_started"
          /\ ses'.chunks = 1
     /\ last_call' = "on_recognize" => last_msg' = "Done"]_vars

\* the first chunk of the session that follows an on_recognize
C20_Witness ==
  /\ last_call = "on_audio"
  /\ prev_call = "on_recognize"
  /\ ses.chunks = 1 /\ ses.session_active
  /\ ses.total_samples_received > 0
  /\ out # <<>>
  /\ out[1].type = "Interim" /\ out[1].samples = ses.total_samples_received

\* C21: an on_audio call made while max_duration_exceeded_ is false, that
\* returns no Final and leaves the received duration at or below
\* max_audio_sec, returns exactly one message: an Interim that carries the
\* received sample count and the VAD's in_speech flag as it is after the
\* chunk's windows.
C21_SingleInterim ==
  [][(/\ ~ses.max_duration_exceeded
      /\ last_call' = "on_audio"
      /\ ~Has(out', "Final")
      /\ ~(received' * 1000 > max_audio_sec * sample_rate)) =>
       /\ Len(out') = 1
       /\ out'[1].type = "Interim"
       /\ out'[1].is_speech = vad'.in_speech
       /\ out'[1].samples = received']_vars

\* the chunk's windows took the VAD into speech and the Interim says so
C21_Witness ==
  /\ last_call = "on_audio"
  /\ ~ses.max_duration_exceeded
  /\ Types(out) = <<"Interim">>
  /\ out[1].is_speech /\ vad.in_speech
  /\ Logged("accept_waveform:speech")

\* the FINALIZED state: the last call was an on_recognize, or an on_audio
\* auto-finalized the session and max_duration_exceeded_ is still set
Finalized == last_call = "on_recognize" \/ ses.max_duration_exceeded

\* C25 (as stated): an on_audio call made in the FINALIZED state, entered
\* by on_recognize or by auto-finalize, is not ignored: it starts a new
\* active session.
C25_Original ==
  [][(Finalized /\ last_call' = "on_audio") =>
       /\ ses'.session_active
       /\ ses'.chunks = 1
       /\ out' # <<>>]_vars

\* C25 (amended): after on_recognize the session is already in the state of
\* a new one and the on_audio that follows starts an active session; after
\* an auto-finalize every on_audio is ignored and on_close leaves the flag
\* set, and only on_recognize or on_reset returns the session to IDLE.
C25_FinalizedToIdle ==
  [][/\ last_call = "on_recognize" =>
          /\ Fresh(vad, ses, pending)
          /\ last_call' = "on_audio" =>
               /\ ses'.session_active /\ ses'.chunks = 1
               /\ log' # <<>> /\ log'[1] = "session_started"
               /\ out' # <<>>
     /\ ses.max_duration_exceeded =>
          /\ ~ses.session_active /\ vad = VadInit /\ pending = 0
          /\ last_call' = "on_audio" =>
               /\ out' = <<>> /\ log' = <<>>
               /\ UNCHANGED <<vad, ses, pending>>
          /\ last_call' = "on_close" => UNCHANGED <<vad, ses, pending>>
          /\ last_call' \in {"on_recognize", "on_reset"} =>
               Fresh(vad', ses', pending')]_vars

\* an on_audio was ignored after an auto-finalize (it returned nothing, and
\* the last message returned is still the Done), then on_reset brought the
\* session back to IDLE
C25_Witness ==
  /\ last_call = "on_reset"
  /\ prev_call = "on_audio"
  /\ out = <<>>
  /\ last_msg = "Done"
  /\ Fresh(vad, ses, pending)

\* C27 (as stated): time-to-first-result is observed only at a segment
\* whose recognition gave a non-empty text: in a call's log every
\* observe_ttfr belongs to a segment whose outcome is record_result.
C27_TtfrAtFirstText ==
  [][\A i \in 1..Len(log') :
       log'[i] = "observe_ttfr" =>
         /\ i + 2 <= Len(log')
         /\ log'[i + 2] = "record_result"]_vars

\* C27, the part that holds: time-to-first-result is observed at most once
\* in a session, at a recognized segment, while has_first_result_ is false.
C27_TtfrOnce ==
  [][/\ Cardinality({i \in 1..Len(log') : log'[i] = "observe_ttfr"}) <= 1
     /\ \A i \in 1..Len(log') :
          log'[i] = "observe_ttfr" =>
            /\ ~ses.has_first_result
            /\ i > 1 /\ log'[i - 1] = "recognize"]_vars

(***************************************************************************)
(* Properties of the drain loop (SpecDrain)                                *)
(***************************************************************************)
IsOutcome(ev) == ev \in {"record_silence", "record_result"}
IsDrainEvent(ev) == ev \in {"recognize", "record_silence", "record_result"}

\* what the loop does on segments i.. of q when outcomes[i] is the outcome of
\* segment i: a short one is counted as silence, another is recognized first
RECURSIVE DrainEvents(_, _, _)
DrainEvents(q, outcomes, i) ==
  IF i > Len(q) THEN <<>>
  ELSE (IF q[i] * 1000 < min_audio_sec * sample_rate
          THEN <<"record_silence">>
          ELSE <<"recognize", outcomes[i]>>) \o DrainEvents(q, outcomes, i + 1)

\* the sizes of the segments i.. of q whose outcome is a result, in order
RECURSIVE ResultSizes(_, _, _)
ResultSizes(q, outcomes, i) ==
  IF i > Len(q) THEN <<>>
  ELSE (IF outcomes[i] = "record_result" THEN <<q[i]>> ELSE <<>>)
         \o ResultSizes(q, outcomes, i + 1)

\* C26: the drain loop empties the FIFO in its order and gives each segment
\* exactly one outcome: a segment shorter than min_audio_sec is counted as
\* silence without a recognizer call; another is recognized once and then
\* either counted as silence (empty text) or counted as a segment with
\* exactly one Final of its duration.  The Finals added are those of the
\* segments with a result, in FIFO order; segments_ grows by their number
\* and segments_ + silence_segments_ by the number of segments popped.
C26_DrainOutcomes ==
  [][last_call' = "process_vad_segments" =>
       LET q == vad.segments
           outcomes == SelectSeq(log', IsOutcome)
           added == SubSeq(out', Len(out) + 1, Len(out'))
       IN /\ vad'.segments = <<>>
          /\ Len(outcomes) = Len(q)
          /\ SelectSeq(log', IsDrainEvent) = DrainEvents(q, outcomes, 1)
          /\ Len(out') >= Len(out) /\ SubSeq(out', 1, Len(out)) = out
          /\ \A k \in 1..Len(added) : added[k].type = "Final"
          /\ [k \in 1..Len(added) |-> added[k].samples] = ResultSizes(q, outcomes, 1)
          /\ ses'.segments - ses.segments = Len(added)
          /\ (ses'.segments + ses'.silence_segments)
               - (ses.segments + ses.silence_segments) = Len(q)]_vars

\* three segments drained in one call: two Finals of different durations and
\* one segment counted as silence
C26_Witness ==
  /\ last_call = "process_vad_segments"
  /\ vad.segments = <<>>
  /\ Types(out) = <<"Final", "Final">>
  /\ out[1].samples > out[2].samples
  /\ Logged("record_silence")
  /\ ses.has_first_result

(***************************************************************************)
(* Properties of a session fed silence only (SpecSilence)                  *)
(***************************************************************************)
SegmentEvents ==
  {"recognize", "record_silence", "record_result", "observe_ttfr",
   "observe_segment", "set_speech_ratio"}

\* C22: when the VAD classifies every window as silence, whatever the
\* chunking: no speech run starts and no segment is finalized, the
\* recognizer is not called, no Final is returned, neither segment counter
\* is incremented, and an on_recognize made below the duration cap returns
\* exactly one message, Done.
C22_SilenceOnly ==
  [][/\ ~vad'.in_speech /\ vad'.speech_buf = 0 /\ vad'.segments = <<>>
     /\ \A i \in 1..Len(log') : log'[i] \notin SegmentEvents
     /\ ~Has(out', "Final")
     /\ ses'.segments = 0 /\ ses'.silence_segments = 0
     /\ (last_call' = "on_recognize" /\ ~ses.max_duration_exceeded) =>
          Types(out') = <<"Done">>]_vars

\* two seconds of silence in several chunks, then on_recognize
C22_Witness ==
  /\ last_call = "on_recognize"
  /\ prev_call = "on_audio"
  /\ received * 1000 >= 2000 * sample_rate
  /\ ses.chunks = 0
  /\ Types(out) = <<"Done">>
  /\ Logged("flush") /\ Logged("session_ended")

\* C39: after every public call the VAD's ready FIFO is empty: the
\* segments a call finalizes are drained in that call.
C39_FifoDrained == vad.segments = <<>>

\* an on_audio call whose window ended a run: the segment was recognized
\* in the call and is no longer on the FIFO
C39_Witness ==
  /\ last_call = "on_audio"
  /\ Logged("accept_waveform:silence")
  /\ Logged("recognize")
  /\ ~vad.in_speech
  /\ ses.session_active
  /\ vad.segments = <<>>

IsSessionEvent(ev) == ev \in {"session_started", "session_ended"}

\* C36: session_started and session_ended alternate, session_started
\* first.  In every call the events emitted continue the alternation from
\* session_active as the call found it, and session_active is left telling
\* which event came last.  session_started comes only from an on_audio
\* that is not dropped, on a session that is not active; an active session
\* is ended once, by the finalization (in on_recognize, or in the on_audio
\* that passes the cap), by on_reset or by on_close, and a session that is
\* not active is not ended.
C36_StartEndAlternate ==
  [][LET evs == SelectSeq(log', IsSessionEvent)
         active == ses.session_active
         dropped == ses.max_duration_exceeded
     IN /\ \A i \in 1..Len(evs) :
             evs[i] = (IF (i % 2 = 1) = active THEN "session_ended"
                                               ELSE "session_started")
        /\ ses'.session_active = (IF Len(evs) % 2 = 0 THEN active ELSE ~active)
        /\ Len(evs) <= 2
        /\ (\E i \in 1..Len(evs) : evs[i] = "session_started") =>
             /\ last_call' = "on_audio" /\ ~dropped /\ ~active
        /\ (last_call' = "on_audio" /\ dropped) => evs = <<>>
        /\ (last_call' = "on_audio" /\ ~dropped) =>
             /\ ~active => evs[1] = "session_started"
             /\ ses'.session_active = ~(\E i \in 1..Len(out') : out'[i].type = "Done")
        /\ last_call' = "on_recognize" =>
             evs = (IF active /\ ~dropped THEN <<"session_ended">> ELSE <<>>)
        /\ last_call' \in {"on_reset", "on_close"} =>
             evs = (IF active THEN <<"session_ended">> ELSE <<>>)]_vars

\* a session that audio started was ended by on_close
C36_Witness ==
  /\ last_call = "on_close"
  /\ prev_call = "on_audio"
  /\ log = <<"session_ended">>
  /\ ~ses.session_active
  /\ ses.chunks > 0

(***************************************************************************)
(* Properties of the VoiceActivityDetector (SpecVad)                       *)
(***************************************************************************)
\* C4: every segment on the ready FIFO lasts at least min_speech_duration.
C4_SegmentsLongEnough ==
  \A i \in 1..Len(vad.segments) :
    vad.segments[i] * 1000 >= vad_min_speech * sample_rate

C4_Witness ==
  /\ last_call = "flush"
  /\ log = <<"segment">>

\* C5 (as stated): between calls the VAD is never in speech with
\* speech_run_samples >= max_speech_samples.
C5_Original ==
  ~(vad.in_speech /\ vad.speech_start_samples >= max_speech_samples)

\* C5 (amended): a speech window that brings speech_run_samples to
\* max_speech_samples or more ends the run in that same call, putting it on
\* the FIFO when it lasts at least min_speech_duration; between calls the
\* VAD is in speech only with speech_run_samples - silence_run_samples below
\* max_speech_samples.
C5_ForceSplit ==
  [][/\ vad'.in_speech =>
          vad'.speech_start_samples - vad'.silence_samples < max_speech_samples
     /\ (/\ last_call' = "accept_waveform"
         /\ log'[1] = "accept_waveform:speech"
         /\ (IF vad.in_speech THEN vad.speech_start_samples ELSE 0)
              + vad_window_size >= max_speech_samples) =>
          /\ ~vad'.in_speech
          /\ vad'.speech_start_samples = 0
          /\ ((IF vad.in_speech THEN vad.speech_buf ELSE 0) + vad_window_size)
                * 1000 >= vad_min_speech * sample_rate
               => log' = <<"accept_waveform:speech", "segment">>]_vars

C5_Witness ==
  /\ last_call = "accept_waveform"
  /\ log = <<"accept_waveform:speech", "segment">>

\* C28: a flush made while in speech ends the run whatever its trailing
\* silence: the run goes on the FIFO when it lasts at least
\* min_speech_duration and is dropped otherwise.  After every flush the VAD
\* is out of speech with an empty accumulator; a flush made while not in
\* speech changes nothing.
C28_Flush ==
  [][last_call' = "flush" =>
       /\ ~vad'.in_speech
       /\ vad'.speech_buf = 0
       /\ IF vad.in_speech
            THEN /\ vad'.silence_samples = 0
                 /\ vad'.speech_start_samples = 0
                 /\ vad'.segments =
                      (IF vad.speech_buf * 1000 < vad_min_speech * sample_rate
                         THEN vad.segments
                         ELSE Append(vad.segments, vad.speech_buf))
            ELSE vad' = vad]_vars

\* a run of three windows went on the FIFO: it was flushed before its
\* silence reached min_silence_duration and before max_speech_duration
C28_Witness ==
  /\ last_call = "flush"
  /\ log = <<"segment">>
  /\ ~vad.in_speech
  /\ vad.segments[Len(vad.segments)] = 3 * vad_window_size
  /\ 3 * vad_window_size < (vad_max_speech * sample_rate) \div 1000

\* C29: while in speech a silence window is appended to the accumulator and
\* adds window_size to speech_run_samples and to silence_run_samples; a
\* speech window resets silence_run_samples to 0; the run is finalized in
\* the call that brings silence_run_samples to min_silence_samples.
\* Between calls silence_run_samples is below min_silence_samples in speech
\* and 0 out of speech.
C29_SilenceRun ==
  [][/\ vad'.in_speech =>
          vad'.silence_samples < (vad_min_silence * sample_rate) \div 1000
     /\ ~vad'.in_speech => vad'.silence_samples = 0
     /\ (last_call' = "accept_waveform" /\ log'[1] = "accept_waveform:speech") =>
          vad'.silence_samples = 0
     /\ (/\ last_call' = "accept_waveform"
         /\ log'[1] = "accept_waveform:silence"
         /\ vad.in_speech) =>
          LET run == vad.silence_samples + vad_window_size
              buf == vad.speech_buf + vad_window_size
          IN IF run >= (vad_min_silence * sample_rate) \div 1000
               THEN /\ ~vad'.in_speech
                    /\ vad'.speech_buf = 0
                    /\ vad'.speech_start_samples = 0
                    /\ vad'.segments =
                         (IF buf * 1000 < vad_min_speech * sample_rate
                            THEN vad.segments
                            ELSE Append(vad.segments, buf))
               ELSE /\ vad'.in_speech
                    /\ vad'.silence_samples = run
                    /\ vad'.speech_buf = buf
                    /\ vad'.speech_start_samples =
                         vad.speech_start_samples + vad_window_size
                    /\ vad'.segments = vad.segments
     /\ (/\ last_call' = "accept_waveform"
         /\ log'[1] = "accept_waveform:silence"
         /\ ~vad.in_speech) =>
          /\ ~vad'.in_speech /\ vad'.speech_buf = vad.speech_buf
          /\ vad'.segments = vad.segments]_vars

\* the silence window that completed min_silence_duration ended the run
C29_Witness ==
  /\ last_call = "accept_waveform"
  /\ log = <<"accept_waveform:silence", "segment">>
  /\ ~vad.in_speech /\ vad.silence_samples = 0

C31_Reset ==
  [][last_call' = "reset" =>
       /\ vad'.segments = <<>>
       /\ ~vad'.in_speech
       /\ vad'.silence_samples = 0
       /\ vad'.speech_start_samples = 0
       /\ vad'.speech_buf = 0
       /\ vad'.context = "zero"
       /\ vad'.state = "zero"]_vars

\* the reset found a run in progress and segments on the FIFO
C31_Witness ==
  /\ last_call = "reset"
  /\ log = <<"in_speech", "queued">>
  /\ vad.segments = <<>> /\ ~vad.in_speech /\ vad.state = "zero"

\* C37: between calls the VAD is in speech exactly when its accumulator is
\* not empty, and the accumulator holds speech_run_samples samples.
C37_RunAccumulator ==
  /\ vad.in_speech <=> vad.speech_buf # 0
  /\ vad.speech_buf = vad.speech_start_samples

\* a run of three windows or more whose last window was silence
C37_Witness ==
  /\ last_call = "accept_waveform"
  /\ log = <<"accept_waveform:silence">>
  /\ vad.in_speech
  /\ vad.silence_samples = vad_window_size
  /\ vad.speech_buf >= 3 * vad_window_size
  /\ vad.speech_start_samples = vad.speech_buf

\* C38: every segment on the ready FIFO has a length that is a positive
\* multiple of window_size and is below
\* max_speech_samples + min_silence_samples + window_size.
C38_SegmentLength ==
  \A i \in 1..Len(vad.segments) :
    /\ vad.segments[i] > 0
    /\ vad.segments[i] % vad_window_size = 0
    /\ vad.segments[i] < (vad_max_speech * sample_rate) \div 1000
                           + (vad_min_silence * sample_rate) \div 1000
                           + vad_window_size

\* a run that silence windows took past max_speech_samples before the
\* silence ended it
C38_Witness ==
  /\ last_call = "accept_waveform"
  /\ log = <<"accept_waveform:silence", "segment">>
  /\ vad.segments[Len(vad.segments)] > (vad_max_speech * sample_rate) \div 1000

(***************************************************************************)
(* Properties of the Recognizer's construction (SpecCtor)                  *)
(***************************************************************************)
\* C32: when the creation of slot i fails, the handles created for slots
\* 0..i-1 have each been destroyed exactly once and the constructor throws;
\* a constructed pool has every one of its configured slots with a live
\* handle of its own; no handle is destroyed twice, and none is left alive
\* once construction has failed or the object has been destroyed.
C32_NoPartialPool ==
  LET n == IF cfg.recognizer_pool_size > 0 THEN cfg.recognizer_pool_size ELSE 1
  IN
  /\ \A k \in DOMAIN destroyed : destroyed[k] <= 1
  /\ rec_pc.pc = "runtime_error" =>
       /\ rec_pc.i < n
       /\ Len(destroyed) = rec_pc.i
       /\ \A k \in DOMAIN destroyed : destroyed[k] = 1
  /\ rec_pc.pc = "constructed" =>
       /\ Len(handle) = n
       /\ \A j \in 1..n : handle[j] # 0 /\ destroyed[handle[j]] = 0
       /\ \A j, l \in 1..n : j # l => handle[j] # handle[l]
  /\ rec_pc.pc = "destructed" =>
       /\ Len(destroyed) = n
       /\ \A k \in DOMAIN destroyed : destroyed[k] = 1
  /\ rec_pc.pc \in {"loop", "runtime_error", "constructed", "destructed"}

\* the third slot of a pool of more than three could not be created
C32_Witness ==
  /\ rec_pc.pc = "runtime_error"
  /\ rec_pc.i = 2
  /\ rec_pc.pool_size > 3
  /\ destroyed = <<1, 1>>

(***************************************************************************)
(* Properties of the recognizer pool (SpecPool)                            *)
(***************************************************************************)
\* the callers that hold a slot: from marking it in_use to clearing the mark
Holders ==
  {t \in Callers :
     pc[t] \in {"stream", "decode", "fail", "release"}}

\* C2: at most pool_size slots are in use, so at most pool_size callers are
\* between acquiring and releasing a slot, each holds a slot marked in_use,
\* and no two hold the same slot.
C2_PoolBound ==
  /\ Cardinality({i \in Slots : slots[i]}) <= recognizer_pool_size
  /\ Cardinality(Holders) <= recognizer_pool_size
  /\ Cardinality(Holders) <= Cardinality({i \in Slots : slots[i]})
  /\ \A t \in Holders : slot_idx[t] \in Slots /\ slots[slot_idx[t]]
  /\ \A t, u \in Holders : t # u => slot_idx[t] # slot_idx[u]

C2_Witness ==
  /\ Cardinality(Holders) = recognizer_pool_size
  /\ \A t \in Holders : pc[t] = "decode"
  /\ \E t \in Callers : pc[t] = "blocked" /\ t \in pool_cv

\* C33 (as stated): on every exit path of a recognize call that acquired a
\* slot the slot is marked free again, so that no slot stays in_use after
\* the call that took it has ended: every slot marked in_use is held by a
\* caller that is between acquiring and releasing it.
C33_SlotFreedOnExit ==
  \A i \in Slots :
    slots[i] => \E t \in Holders : slot_idx[t] = i

\* C12: with more callers than slots, each calling recognize once, under
\* fair scheduling every caller that entered recognize acquires a slot and
\* returns: from some point on no caller is inside recognize any more.
C12_AllReturn == <>[](\A t \in Callers : pc[t] = "idle")

\* every caller is inside recognize at once: the slots are all held and the
\* callers beyond the pool size wait
C12_Witness ==
  /\ NumCallers > recognizer_pool_size
  /\ \A t \in Callers : pc[t] # "idle"
  /\ FreeSlots = {}
  /\ Cardinality({t \in Callers : pc[t] = "blocked" /\ t \in pool_cv})
       = NumCallers - recognizer_pool_size

\* C13 (as stated): a caller takes a slot only when no caller that was
\* already waiting, when it arrived or when it began to wait, still waits.
C13_WaiterOrder ==
  [][\A t \in Callers :
       (pc[t] = "acquire" /\ pc'[t] = "stream") => ahead[t] = {}]_vars

\* C14: a recognize call with empty audio returns the empty string in that
\* step, whatever the slots' state, and changes nothing of the pool.
C14_EmptyAudio ==
  [][\A t \in Callers :
       (/\ pc[t] = "idle"
        /\ audio'[t] = "empty"
        /\ <<pc[t], ret[t], audio[t]>> # <<pc'[t], ret'[t], audio'[t]>>) =>
         /\ pc'[t] = "idle"
         /\ ret'[t] = "empty"
         /\ UNCHANGED <<slots, pool_cv, slot_idx, waiting, ahead>>]_vars

C14_Witness ==
  /\ FreeSlots = {}
  /\ \E t \in Callers :
       /\ pc[t] = "idle" /\ audio[t] = "empty" /\ ret[t] = "empty"
       /\ \A u \in Callers \ {t} : pc[u] = "decode"

(***************************************************************************)
(* Properties of the request semaphore (SpecSem)                           *)
(***************************************************************************)
\* the requests that hold the semaphore: admitted and not yet past a release
SemHolders == {r \in Requests : req_pc[r] = "admitted"}

\* C15 (as stated): the requests holding the request semaphore never number
\* more than max_concurrent_requests.
C15_SemaphoreBound == Cardinality(SemHolders) <= max_concurrent_requests

\* C15, second part: a request that arrives with the count at the limit or
\* above is answered 503 in that step and leaves the count as it was.
C15_RejectAtLimit ==
  [][\A r \in Requests :
       (/\ req_pc[r] = "idle"
        /\ sem_count >= max_concurrent_requests
        /\ <<req_pc[r], resp[r]>> # <<req_pc'[r], resp'[r]>>) =>
         /\ resp'[r] = "503"
         /\ req_pc'[r] = "idle"
         /\ sem_count' = sem_count]_vars

\* C40 (as stated): every successful try_acquire is followed by exactly one
\* release: the count is the number of requests between their try_acquire
\* and their release, it never wraps around, and it is 0 when no request
\* is in flight.
C40_OneReleasePerAcquire ==
  /\ sem_count = Cardinality(SemHolders)
  /\ sem_count <= NumRequests
  /\ (\A r \in Requests : req_pc[r] = "idle") => sem_count = 0

NoFile(u) == u.parse # 0 \/ u.files = 0

\* C23: a handler answers 503 exactly when try_acquire finds the count at
\* the limit, and then before anything of the request is read; an admitted
\* request is answered 400 when no file was uploaded, the file is empty or
\* the decoding raises AudioError, 413 when the file is larger than
\* max_upload_bytes, 500 when the work raises another exception; otherwise
\* it passes the release and is answered 200, or 500 when building the
\* response raises.
C23_StatusCodes ==
  [][\A r \in Requests :
       /\ (/\ req_pc[r] = "idle"
           /\ <<req_pc[r], resp[r]>> # <<req_pc'[r], resp'[r]>>) =>
            /\ upload' = NoUpload
            /\ IF sem_count >= max_concurrent_requests
                 THEN resp'[r] = "503" /\ req_pc'[r] = "idle"
                 ELSE resp'[r] = "none" /\ req_pc'[r] = "admitted"
       /\ (req_pc[r] = "admitted" /\ req_pc'[r] # "admitted") =>
            LET u == upload'
                sized == ~NoFile(u) /\ u.size > 0 /\ u.size <= max_upload_bytes
            IN /\ u \in Uploads
               /\ resp'[r] = "400" <=>
                    (NoFile(u) \/ u.size = 0 \/ (sized /\ u.work = "AudioError"))
               /\ resp'[r] = "413" <=> (~NoFile(u) /\ u.size > max_upload_bytes)
               /\ resp'[r] = "500" <=> (sized /\ u.work = "exception")
               /\ resp'[r] = "none" <=> (sized /\ u.work = "ok")
               /\ resp'[r] \in {"400", "413", "500", "none"}
               /\ req_pc'[r] = (IF resp'[r] = "none" THEN "released" ELSE "idle")
       /\ (req_pc[r] = "released" /\ req_pc'[r] # "released") =>
            /\ resp'[r] \in {"200", "500"}
            /\ req_pc'[r] = "idle"
       /\ (resp'[r] = "503" /\ resp[r] # "503") => req_pc[r] = "idle"]_vars

\* one request turned away at capacity, and an admitted one whose file of
\* max_upload_bytes + 1 bytes was answered 413 by the handler that stepped last
C23_Witness ==
  \E r, q \in Requests :
    /\ r # q
    /\ resp[r] = "503"
    /\ resp[q] = "413" /\ req_pc[q] = "idle"
    /\ upload.parse = 0 /\ upload.files = 1
    /\ upload.size = max_upload_bytes + 1

Handled == handled' = handled + 1

\* nothing reached the Session and nothing was sent
NothingDelivered ==
  /\ wire' = <<>>
  /\ UNCHANGED <<vad, ses, pending, out, log, last_call, prev_call, last_msg, received>>

\* C16: a binary message of more than max_ws_message_bytes shuts the
\* connection down with the violation code, makes no Session call, changes
\* no Session state and sends nothing.
C16_OversizeCloses ==
  [][(Handled /\ msg'.type = "Binary" /\ msg'.size > max_ws_message_bytes) =>
       /\ conn.state = "open"
       /\ conn'.state = "shutdown"
       /\ conn'.close_code = "kViolation"
       /\ conn'.close_reason = "message_too_large"
       /\ NothingDelivered]_vars

\* a session that holds audio, then the frame of max_ws_message_bytes + 4
C16_Witness ==
  /\ msg.type = "Binary"
  /\ msg.size = max_ws_message_bytes + sizeof_float
  /\ conn.state = "shutdown"
  /\ ses.chunks > 0
  /\ wire = <<>>

\* C17 (as stated): a binary message of zero length, or of a length that is
\* no multiple of 4, shuts the connection down with the violation code and
\* delivers nothing to the Session.
C17_MalformedCloses ==
  [][(/\ Handled
      /\ msg'.type = "Binary"
      /\ (msg'.size = 0 \/ msg'.size % 4 # 0)) =>
       /\ conn'.state = "shutdown"
       /\ conn'.close_code = "kViolation"
       /\ NothingDelivered]_vars

\* C17, the part that holds: such a message delivers nothing to the Session.
C17_MalformedNotDelivered ==
  [][(/\ Handled
      /\ msg'.type = "Binary"
      /\ (msg'.size = 0 \/ msg'.size % 4 # 0)) => NothingDelivered]_vars

\* a text that is neither a command nor an announcement the handler accepts
UnknownCommand(m) == m.type = "Text" /\ m.text \in {"PING", "", "{other}", "{bad"}

OutOfRangeRate(m) ==
  /\ m.type = "Text"
  /\ m.text = "{rate}"
  /\ (m.rate < min_input_rate \/ m.rate > max_input_rate)

\* C18: an unknown text command, or a sample-rate announcement outside
\* [min_input_rate, max_input_rate], leaves the connection open and its
\* context (resampler, sample_rate_received) as it was, sends nothing and
\* changes no Session state.
C18_Ignored ==
  [][(Handled /\ (UnknownCommand(msg') \/ OutOfRangeRate(msg'))) =>
       /\ conn' = conn
       /\ conn'.state = "open"
       /\ NothingDelivered]_vars

\* the rate just above the range, announced first on a session with audio
C18_Witness ==
  /\ OutOfRangeRate(msg)
  /\ msg.rate = max_input_rate + 1
  /\ conn.state = "open"
  /\ ~conn.resampler /\ ~conn.sample_rate_received
  /\ ses.chunks > 0

\* C34: an announcement with a rate in [min_input_rate, max_input_rate],
\* handled while no announcement has been accepted, is accepted and installs
\* a resampler exactly when the rate differs from the model rate; any other
\* announcement (one already accepted, or the rate out of range) leaves the
\* context as it was, so that a rejected one does not prevent a later
\* acceptance; nothing but an accepted announcement changes the resampler
\* or sample_rate_received.
C34_RateAnnouncement ==
  [][/\ (Handled /\ msg'.type = "Text" /\ msg'.text = "{rate}") =>
          IF /\ ~conn.sample_rate_received
             /\ min_input_rate <= msg'.rate /\ msg'.rate <= max_input_rate
            THEN /\ conn'.sample_rate_received
                 /\ conn'.resampler = (msg'.rate # sample_rate)
                 /\ conn'.state = "open"
            ELSE conn' = conn
     /\ (\/ conn'.resampler # conn.resampler
         \/ conn'.sample_rate_received # conn.sample_rate_received) =>
          /\ Handled /\ msg'.type = "Text" /\ msg'.text = "{rate}"
          /\ ~conn.sample_rate_received]_vars

\* an announcement of a rate other than the model's, accepted after at
\* least one other message, installed a resampler
C34_Witness ==
  /\ msg.type = "Text" /\ msg.text = "{rate}"
  /\ msg.rate = max_input_rate /\ msg.rate # sample_rate
  /\ handled > 1
  /\ conn.sample_rate_received /\ conn.resampler
  /\ ses.chunks > 0

Ops(w) == [i \in 1..Len(w) |-> IF w[i].kind = "call" THEN w[i].op ELSE "send"]

\* every Session call of the handler is followed at once by the sends of
\* the messages it returned, in their order, before the next Session call
InOrder(w) ==
  /\ w # <<>> => w[1].kind = "call"
  /\ \A i \in 1..Len(w) :
       w[i].kind = "call" =>
         /\ i + Len(w[i].ret) <= Len(w)
         /\ \A j \in 1..Len(w[i].ret) :
              w[i + j].kind = "send" /\ w[i + j].msg = w[i].ret[j]
         /\ i + Len(w[i].ret) < Len(w) => w[i + Len(w[i].ret) + 1].kind = "call"

CallsOf(w) == {i \in 1..Len(w) : w[i].kind = "call"}

\* C19: in every handler the messages each Session call returned are sent
\* in the order produced and before the next Session call; the last call's
\* list is the Session's current list; a RECOGNIZE whose resampler gives a
\* tail calls on_audio, sends its messages, then calls on_recognize and
\* sends its messages.
C19_SendOrder ==
  /\ InOrder(wire)
  /\ \A i \in CallsOf(wire) :
       (/\ \A j \in CallsOf(wire) : j <= i
        /\ wire[i].op \in {"on_audio", "on_recognize"}) => wire[i].ret = out
  /\ (msg.type = "Text" /\ msg.text = "RECOGNIZE") =>
       /\ Cardinality(CallsOf(wire)) = (IF conn.resampler /\ msg.produced # 0 THEN 2 ELSE 1)
       /\ wire[1].kind = "call"
       /\ wire[1].op = (IF conn.resampler /\ msg.produced # 0 THEN "on_audio" ELSE "on_recognize")
       /\ \A i \in CallsOf(wire) : i # 1 => wire[i].op = "on_recognize"
  /\ (msg.type = "Binary" /\ wire # <<>>) =>
       /\ CallsOf(wire) = {1}
       /\ wire[1].op = "on_audio"

\* a RECOGNIZE with a resampler tail: the tail's Interim is sent, then
\* on_recognize is called and its Final and Done are sent
C19_Witness ==
  /\ msg.type = "Text" /\ msg.text = "RECOGNIZE"
  /\ conn.resampler /\ msg.produced # 0
  /\ Ops(wire) = <<"on_audio", "send", "on_recognize", "send", "send">>
  /\ wire[2].msg.type = "Interim"
  /\ wire[4].msg.type = "Final"
  /\ wire[5].msg.type = "Done"


\* the Session calls of a handler, in order
CallOps(w) == [i \in 1..Cardinality(CallsOf(w)) |->
                 w[CHOOSE j \in CallsOf(w) :
                     Cardinality({l \in CallsOf(w) : l <= j}) = i].op]

\* C35: on a connection with a resampler, the handler of RECOGNIZE and the
\* handler of RESET leave the resampler installed with its filter state
\* reset, and only the resampling of a later binary message primes it
\* again; on RECOGNIZE a non-empty tail goes to on_audio and then
\* on_recognize is called, on RESET on_reset is the only Session call.
C35_FlushAtStreamEnd ==
  [][/\ (/\ Handled /\ msg'.type = "Text"
         /\ msg'.text \in {"RECOGNIZE", "RESET"}
         /\ conn.resampler) =>
          /\ conn'.resampler
          /\ conn'.filter = "reset"
          /\ msg'.text = "RECOGNIZE" =>
               CallOps(wire') = (IF msg'.produced # 0
                                  THEN <<"on_audio", "on_recognize">>
                                  ELSE <<"on_recognize">>)
          /\ msg'.text = "RESET" => CallOps(wire') = <<"on_reset">>
     /\ (conn'.filter = "primed" /\ conn.filter # "primed") =>
          /\ Handled /\ msg'.type = "Binary"
          /\ conn.resampler
          /\ CallOps(wire') = <<"on_audio">>]_vars

\* a RESET ended a session whose audio had been resampled
C35_Witness ==
  /\ msg.type = "Text" /\ msg.text = "RESET"
  /\ conn.resampler /\ conn.filter = "reset"
  /\ Logged("session_ended")
  /\ wire = <<Call("on_reset", <<>>)>>
  /\ handled > 2

====
